---- MODULE Spec2Model ----
(***************************************************************************)
(* Model of the native POSIX permission / ACL session of acl_native.c:     *)
(* the process-wide slots _fd and _acl, the last-error record, and the     *)
(* four exported operations.  Every exported function is one action; the   *)
(* underlying system and libacl calls are steps inside it, any one of      *)
(* which the environment may fail.                                         *)
(***************************************************************************)
EXTENDS Integers, Sequences, FiniteSets, TLC

(* ------------------------------ bounds --------------------------------- *)

\* Descriptor numbers of the process are 0..MaxFd.
MaxFd == 1
\* ACL handles the allocator can hand out are 1..MaxAcl.
MaxAcl == 2

(* ----------------------- constants of acl_native.h --------------------- *)

FILE_PERMISSION_NONE == 0
FILE_PERMISSION_EXECUTE == 1
FILE_PERMISSION_WRITE == 2
FILE_PERMISSION_READ == 4
FILE_PERMISSION_SETID == 8
FILE_PERMISSION_STICKY == 16

ACL_ENTRY_TAG_TYPE_USER_OBJ == 1
ACL_ENTRY_TAG_TYPE_USER == 2
ACL_ENTRY_TAG_TYPE_GROUP_OBJ == 3
ACL_ENTRY_TAG_TYPE_GROUP == 4
ACL_ENTRY_TAG_TYPE_MASK == 5
ACL_ENTRY_TAG_TYPE_OTHER == 6

NATIVE_ERROR_SUCCESS == 0
NATIVE_ERROR_OPEN_FAILED == 1
NATIVE_ERROR_FSTAT_FAILED == 2
NATIVE_ERROR_GET_ACL_FAILED == 3
NATIVE_ERROR_GET_ACL_ENTRY_FAILED == 4
NATIVE_ERROR_GET_ACL_ENTRY_TAG_TYPE_FAILED == 5
NATIVE_ERROR_GET_ACL_ENTRY_QUALIFIER_FAILED == 6
NATIVE_ERROR_GET_ACL_ENTRY_PERMSET_FAILED == 7
NATIVE_ERROR_GET_ACL_ENTRY_PERM_FAILED == 8
NATIVE_ERROR_CHOWN_FAILED == 9
NATIVE_ERROR_CHMOD_FAILED == 10
NATIVE_ERROR_INIT_ACL_FAILED == 11
NATIVE_ERROR_CREATE_ACL_ENTRY_FAILED == 12
NATIVE_ERROR_INVALID_TAG_TYPE == 13
NATIVE_ERROR_SET_ACL_ENTRY_TAG_TYPE_FAILED == 14
NATIVE_ERROR_SET_ACL_ENTRY_QUALIFIER_FAILED == 15
NATIVE_ERROR_CLEAR_ACL_ENTRY_PERMS_FAILED == 16
NATIVE_ERROR_ADD_ACL_ENTRY_PERM_FAILED == 17
NATIVE_ERROR_VALIDATE_ACL_FAILED == 18
NATIVE_ERROR_SET_ACL_FAILED == 19

(* ------------------ platform constants the code uses ------------------- *)

\* NULL, as stored in the slots _fd and _acl.
NULL == 0

\* File mode bits of <sys/stat.h>.
S_IRUSR == 256
S_IWUSR == 128
S_IXUSR == 64
S_IRGRP == 32
S_IWGRP == 16
S_IXGRP == 8
S_IROTH == 4
S_IWOTH == 2
S_IXOTH == 1
S_ISUID == 2048
S_ISGID == 1024
S_ISVTX == 512

\* errno values of <errno.h> the environment produces by itself.
EBADF == 9
ENOMEM == 12
EINVAL == 22
EMFILE == 24
\* errno values an injected failure can carry.
EnvErrnos == {13}

\* strerror_r: the platform's description of an errno value.
StrError(e) ==
    CASE e = 5 -> "Input/output error"
      [] e = EBADF -> "Bad file descriptor"
      [] e = ENOMEM -> "Cannot allocate memory"
      [] e = 13 -> "Permission denied"
      [] e = EINVAL -> "Invalid argument"
      [] e = EMFILE -> "Too many open files"
      [] OTHER -> "Unknown error"

\* x & bit # 0, for a single-bit mask.
Has(x, bit) == (x \div bit) % 2 = 1

\* The unsigned 32-bit uid_t / gid_t / id_t values of the platform are held
\* as << high 16 bits, low 16 bits >>; the int32_t fields of the containers
\* are plain integers.  ToU32 and ToI32 are the conversions C applies between
\* the two (value modulo 2^32).
ToU32(x) ==
    IF x >= 0 THEN << x \div 65536, x % 65536 >>
    ELSE << 65535 - ((-(x + 1)) \div 65536), 65535 - ((-(x + 1)) % 65536) >>
ToI32(u) ==
    IF u[1] >= 32768 THEN -((65535 - u[1]) * 65536 + (65535 - u[2])) - 1
    ELSE u[1] * 65536 + u[2]

\* Qualifier of a platform entry that never had one set (ACL_UNDEFINED_ID),
\* and the "unchanged" id of fchown: (id_t)-1.
ACL_UNDEFINED_ID == ToU32(-1)

(* ------------------------------ domains -------------------------------- *)

Paths == {"dir"}
\* What descriptor 0 is open on when the process has its standard input.
STDIN == "stdin"
FdPool == 0..MaxFd
AclPool == 1..MaxAcl

PlatformEntry(t, q, p) == [tag |-> t, qual |-> q, perms |-> p]
NativeEntry(t, q, p) == [tagType |-> t, tagQualifier |-> q, permissions |-> p]

\* A freshly created platform entry (acl_create_entry).
BlankEntry == PlatformEntry("ACL_UNDEFINED_TAG", ACL_UNDEFINED_ID, {})

\* The object of the model is a directory with mode 0755, an access ACL that
\* grants one named group access, and an empty default ACL.
AclA == << PlatformEntry("ACL_USER_OBJ", ACL_UNDEFINED_ID,
                         {"ACL_READ", "ACL_WRITE", "ACL_EXECUTE"}),
           PlatformEntry("ACL_GROUP_OBJ", ACL_UNDEFINED_ID, {"ACL_READ", "ACL_EXECUTE"}),
           PlatformEntry("ACL_GROUP", ToU32(-294967296), {"ACL_READ"}),
           PlatformEntry("ACL_MASK", ACL_UNDEFINED_ID, {"ACL_READ", "ACL_EXECUTE"}),
           PlatformEntry("ACL_OTHER", ACL_UNDEFINED_ID, {"ACL_READ", "ACL_EXECUTE"}) >>

InitFiles ==
    [p \in Paths |->
        [st_uid |-> ToU32(0), st_gid |-> ToU32(0), st_mode |-> 493,
         access |-> AclA, default |-> << >>]]

\* What a caller's zero-initialised container and output entry hold.
EmptyContainer ==
    [ownerId |-> 0, ownerPermissions |-> 0, groupId |-> 0,
     groupPermissions |-> 0, otherPermissions |-> 0, aclSize |-> 0]
EmptyEntry == NativeEntry(0, 0, 0)

(* ------------------------------- state --------------------------------- *)

VARIABLES
    _fd,               \* static int _fd
    _acl,              \* static acl_t _acl (NULL or a handle)
    _lastErrnoValue,   \* static int _lastErrnoValue
    _lastErrnoString,  \* static char _lastErrnoString[256]
    fdTable,           \* descriptor -> what it is open on, or "closed"
    heap,              \* ACL handle -> [live, entries, pos]
    files,             \* path -> owner, group, mode, access and default ACL
    op,                \* the exported function that ran last ("none" once
                       \* the caller has taken its results)
    inp,               \* the arguments it was called with
    entry,             \* the program and the object as they were when it was called
    ret,               \* its return value
    trace,             \* the underlying calls it made, in order
    outContainer,      \* dataContainer as OpenFileAndReadPermissionData left it
    outEntries,        \* entries as ReadFileAclAndClose left it
    written,           \* indices of entries ReadFileAclAndClose stored into
    queried,           \* GetLastErrnoValue was called since then
    outErrno,          \* return value of GetLastErrnoValue
    outBuffer,         \* errnoStringBuffer as GetLastErrnoValue left it
    lastCount,         \* aclSize of the caller's last successful first phase
    pending,           \* the first read still awaiting its second phase: what
                       \* it holds and returned, and how many operations were
                       \* called since (2 for two or more)
    kept               \* the container and the entries a caller that writes
                       \* back what it read, or reads back what it wrote, has
                       \* at hand, and where they come from

prog == << _fd, _acl, _lastErrnoValue, _lastErrnoString, fdTable, heap, files >>
obs == << op, inp, entry, ret, trace, outContainer, outEntries, written, queried,
          outErrno, outBuffer >>
caller == << lastCount, pending, kept >>
vars == << prog, obs, caller >>

\* The caller of the session keeps nothing from one call to the next.
NoKept == [origin |-> "none", dataContainer |-> EmptyContainer, entries |-> << >>]
NoPending == [fd |-> -1, acl |-> NULL, entries |-> << >>, count |-> 0,
              overlaps |-> 0]
Entry == [_fd |-> _fd, _acl |-> _acl, fdTable |-> fdTable, heap |-> heap,
          files |-> files, pending |-> pending, kept |-> kept]
NoEntry == [_fd |-> NULL, _acl |-> NULL,
            fdTable |-> [d \in FdPool |-> "closed"],
            heap |-> [h \in AclPool |-> [live |-> FALSE, entries |-> << >>, pos |-> 0]],
            files |-> [p \in Paths |-> << >>], pending |-> NoPending,
            kept |-> NoKept]
NoInput == [fileName |-> "", defaultAcl |-> 0, dataContainer |-> EmptyContainer,
            entries |-> << >>]

Init ==
    /\ _fd = NULL
    /\ _acl = NULL
    /\ _lastErrnoValue = 0
    /\ _lastErrnoString = ""
    /\ fdTable \in {[d \in FdPool |-> "closed"],
                   [d \in FdPool |-> IF d = 0 THEN STDIN ELSE "closed"]}
    /\ heap = [h \in AclPool |-> [live |-> FALSE, entries |-> << >>, pos |-> 0]]
    /\ files = InitFiles
    /\ op = "none"
    /\ inp = NoInput
    /\ entry = NoEntry
    /\ ret = NATIVE_ERROR_SUCCESS
    /\ trace = << >>
    /\ outContainer = EmptyContainer
    /\ outEntries = << >>
    /\ written = {}
    /\ queried = FALSE
    /\ outErrno = 0
    /\ outBuffer = ""
    /\ lastCount = 0
    /\ pending = NoPending
    /\ kept = NoKept

(* ------------------- the machine an operation runs on ------------------ *)

\* One underlying call as it appears in the trace: its name, the descriptor
\* or handle it was given (or returned), a second argument where the claims
\* need one (0 otherwise), and whether it succeeded.
Ev(call, a, b, ok) == [call |-> call, a |-> a, b |-> b, ok |-> ok]

\* The program state at the entry of an exported function, together with the
\* environment's choices for this run: the failAt-th underlying call fails
\* (none when 0) and sets errno to e.  errno is only ever read by store_errno
\* right after a call that failed and set it, so it lives in the run.
Machine(failAt, e) ==
    [_fd |-> _fd, _acl |-> _acl, _lastErrnoValue |-> _lastErrnoValue,
     _lastErrnoString |-> _lastErrnoString, errno |-> 0,
     fdTable |-> fdTable, heap |-> heap, files |-> files,
     trace |-> << >>, k |-> failAt, e |-> e,
     rv |-> 0, ret |-> NATIVE_ERROR_SUCCESS, returned |-> FALSE,
     dc |-> EmptyContainer, ents |-> << >>, written |-> {}]

Injected(m) == m.k = 1

\* Bookkeeping common to every underlying call: it is appended to the trace,
\* it consumes one step of the failure countdown, it returns rv, and when it
\* fails it sets errno.
CalledB(m, call, a, b, ok, rv, err) ==
    [m EXCEPT !.trace = Append(@, Ev(call, a, b, ok)),
              !.k = IF @ > 0 THEN @ - 1 ELSE 0,
              !.rv = rv,
              !.errno = IF ok THEN @ ELSE err]
Called(m, call, a, ok, rv, err) == CalledB(m, call, a, 0, ok, rv, err)

IsOpenFd(m, d) == d \in FdPool /\ m.fdTable[d] # "closed"
IsLiveAcl(m, h) == h \in AclPool /\ m.heap[h].live
FreeAcls(m) == {h \in AclPool : ~m.heap[h].live}
MinOf(S) == CHOOSE x \in S : \A y \in S : x <= y
FreedAcl == [live |-> FALSE, entries |-> << >>, pos |-> 0]

\* open(fileName, O_RDONLY): the lowest descriptor that is not open, or -1
\* (with EMFILE when the call was left alone and every descriptor is open).
FreeFds(m) == {d \in FdPool : m.fdTable[d] = "closed"}
sys_open(m, fileName) ==
    LET ok == ~Injected(m) /\ FreeFds(m) # {}
        d == MinOf(FreeFds(m))
        m1 == Called(m, "open", IF ok THEN d ELSE -1, ok, IF ok THEN d ELSE -1,
                     IF Injected(m) THEN m.e ELSE EMFILE)
    IN IF ok THEN [m1 EXCEPT !.fdTable[d] = fileName] ELSE m1

\* close(fd): fails with EBADF on anything that is not an open descriptor.
sys_close(m, d) ==
    LET ok == IsOpenFd(m, d)
        m1 == Called(m, "close", d, ok, IF ok THEN 0 ELSE -1, EBADF)
    IN IF ok THEN [m1 EXCEPT !.fdTable[d] = "closed"] ELSE m1

\* fstat(fd, &fileStat).
sys_fstat(m, d) ==
    LET ok == ~Injected(m) /\ IsOpenFd(m, d)
    IN Called(m, "fstat", d, ok, IF ok THEN 0 ELSE -1,
              IF IsOpenFd(m, d) THEN m.e ELSE EBADF)

\* The object an open descriptor refers to.
FileOf(m, d) == m.files[m.fdTable[d]]

\* acl_get_fd(fd, type): a new handle holding a copy of the object's ACL of
\* the given type, or NULL.
acl_get_fd(m, d, type) ==
    LET ok == ~Injected(m) /\ IsOpenFd(m, d) /\ FreeAcls(m) # {}
        h == MinOf(FreeAcls(m))
        err == IF Injected(m) THEN m.e ELSE IF IsOpenFd(m, d) THEN ENOMEM ELSE EBADF
        m1 == Called(m, "acl_get_fd", IF ok THEN h ELSE NULL, ok,
                     IF ok THEN h ELSE NULL, err)
    IN IF ok
       THEN [m1 EXCEPT !.heap[h] =
                [live |-> TRUE,
                 entries |-> IF type = "ACL_TYPE_DEFAULT"
                             THEN FileOf(m, d).default ELSE FileOf(m, d).access,
                 pos |-> 0]]
       ELSE m1

\* acl_init(count): a new, empty handle, or NULL.
acl_init(m, count) ==
    LET ok == ~Injected(m) /\ count >= 0 /\ FreeAcls(m) # {}
        h == MinOf(FreeAcls(m))
        err == IF Injected(m) THEN m.e ELSE IF count < 0 THEN EINVAL ELSE ENOMEM
        m1 == Called(m, "acl_init", IF ok THEN h ELSE NULL, ok,
                     IF ok THEN h ELSE NULL, err)
    IN IF ok
       THEN [m1 EXCEPT !.heap[h] = [live |-> TRUE, entries |-> << >>, pos |-> 0]]
       ELSE m1

\* acl_free(acl).
acl_free(m, h) ==
    LET ok == IsLiveAcl(m, h)
        m1 == Called(m, "acl_free", h, ok, IF ok THEN 0 ELSE -1, EINVAL)
    IN IF ok THEN [m1 EXCEPT !.heap[h] = FreedAcl] ELSE m1

\* acl_get_entry(acl, ACL_FIRST_ENTRY | ACL_NEXT_ENTRY, &currEntry): 1 when
\* the handle's cursor now stands on an entry, 0 when the ACL is exhausted,
\* -1 on error (EINVAL for a handle that is not an ACL).
acl_get_entry(m, h, which) ==
    LET valid == IsLiveAcl(m, h)
        ok == ~Injected(m) /\ valid
        pos == IF which = "ACL_FIRST_ENTRY" THEN 1 ELSE m.heap[h].pos + 1
        m1 == Called(m, "acl_get_entry", h, ok,
                     IF ~ok THEN -1
                     ELSE IF pos <= Len(m.heap[h].entries) THEN 1 ELSE 0,
                     IF valid THEN m.e ELSE EINVAL)
    IN IF ok THEN [m1 EXCEPT !.heap[h].pos = pos] ELSE m1

\* The platform entry currEntry refers to.
CurrEntry(m, h) == m.heap[h].entries[m.heap[h].pos]

\* acl_valid(acl): exactly one ACL_USER_OBJ, ACL_GROUP_OBJ and ACL_OTHER entry,
\* no undefined tag, no qualifier twice among the ACL_USER or among the
\* ACL_GROUP entries and none of them ACL_UNDEFINED_ID, and exactly one
\* ACL_MASK entry when there is an ACL_USER or ACL_GROUP entry (at most one
\* otherwise).
Tagged(entries, tag) == {i \in DOMAIN entries : entries[i].tag = tag}
ValidAcl(entries) ==
    /\ \A tag \in {"ACL_USER_OBJ", "ACL_GROUP_OBJ", "ACL_OTHER"} :
          Cardinality(Tagged(entries, tag)) = 1
    /\ \A i \in DOMAIN entries :
          entries[i].tag \in {"ACL_USER_OBJ", "ACL_USER", "ACL_GROUP_OBJ",
                              "ACL_GROUP", "ACL_MASK", "ACL_OTHER"}
    /\ \A tag \in {"ACL_USER", "ACL_GROUP"} :
          \A i, j \in Tagged(entries, tag) :
             /\ entries[i].qual # ACL_UNDEFINED_ID
             /\ entries[i].qual = entries[j].qual => i = j
    /\ Cardinality(Tagged(entries, "ACL_MASK")) <= 1
    /\ Tagged(entries, "ACL_USER") \cup Tagged(entries, "ACL_GROUP") # {}
          => Tagged(entries, "ACL_MASK") # {}
acl_valid(m, h) ==
    LET valid == IsLiveAcl(m, h) /\ ValidAcl(m.heap[h].entries)
        ok == ~Injected(m) /\ valid
    IN Called(m, "acl_valid", h, ok, IF ok THEN 0 ELSE -1,
              IF valid THEN m.e ELSE EINVAL)

\* A libacl call on an entry or permission set that only succeeds or fails.
acl_call(m, name, h) ==
    LET ok == ~Injected(m)
    IN Called(m, name, h, ok, IF ok THEN 0 ELSE -1, m.e)

(* ------------------------------ sequencing ----------------------------- *)

\* The value of a one-element set.  A statement of a function body is written
\*     S(v) == The({IF m.returned THEN m ELSE ... m ... : m \in {v}})
\* where m is the machine the statements before it left, v, and the statement
\* is skipped when one of them returned.
The(S) == CHOOSE r \in S : TRUE

(* --------------------------- utility functions ------------------------- *)

\* A reset that was forgotten.
ResetErrno_skipped(m) == m

\* "Reset errno": the first statement of the three operations.
ResetErrno(m) == [m EXCEPT !._lastErrnoValue = 0]

\* A failure path that does not record errno.
store_errno_lost(m) == m

store_errno(m) ==
    [m EXCEPT !._lastErrnoValue = m.errno,
              !._lastErrnoString = StrError(m.errno)]

\* A cleanup that leaves the ACL slot alone.
FreeAclSlot_skipped(m) == m

\* if(_acl) { acl_free(_acl); _acl = NULL; }
FreeAclSlot(m) ==
    IF m._acl # NULL THEN [acl_free(m, m._acl) EXCEPT !._acl = NULL] ELSE m

\* if(_fd) { close(_fd); _fd = NULL; }
CloseFdSlot(m) ==
    IF m._fd # NULL THEN [sys_close(m, m._fd) EXCEPT !._fd = NULL] ELSE m

cleanup_with_error_code(v, errorCode) ==
    The({[CloseFdSlot(m) EXCEPT !.ret = errorCode, !.returned = TRUE] :
            m \in {FreeAclSlot(x) : x \in {v}}})

\* return errorCode, without cleanup.
Return(m, errorCode) == [m EXCEPT !.ret = errorCode, !.returned = TRUE]

\* if(call(...) < 0) { store_errno(); return cleanup_with_error_code(code); }
\* where v is the machine the call left.
OrFail(v, errorCode) ==
    The({IF m.rv < 0 THEN cleanup_with_error_code(store_errno(m), errorCode)
         ELSE m : m \in {v}})

\* The same for a call that returns a pointer: if(!p) { ... }.
OrFailNull(v, errorCode) ==
    The({IF m.rv = NULL THEN cleanup_with_error_code(store_errno(m), errorCode)
         ELSE m : m \in {v}})

(* ---------------- statements the operations have in common ------------- *)

\* An open whose failure is returned without store_errno.
OpenFd_unrecorded(v, fileName) ==
    The({IF o.rv < 0
         THEN Return([o EXCEPT !._fd = o.rv], NATIVE_ERROR_OPEN_FAILED)
         ELSE [o EXCEPT !._fd = o.rv] :
            o \in {sys_open(m, fileName) : m \in {v}}})

\* _fd = open(fileName, O_RDONLY);
\* if(_fd < 0) { store_errno(); return NATIVE_ERROR_OPEN_FAILED; }
OpenFd(v, fileName) ==
    The({IF o.rv < 0
         THEN Return(store_errno([o EXCEPT !._fd = o.rv]), NATIVE_ERROR_OPEN_FAILED)
         ELSE [o EXCEPT !._fd = o.rv] :
            o \in {sys_open(m, fileName) : m \in {v}}})

\* "Read file metadata".
StatFd(v) ==
    The({IF m.returned THEN m
         ELSE OrFail(sys_fstat(m, m._fd), NATIVE_ERROR_FSTAT_FAILED) : m \in {v}})

\* acl_get_permset(entry, &permset) with its error return.
GetPermset(v) ==
    The({IF m.returned THEN m
         ELSE OrFail(acl_call(m, "acl_get_permset", m._acl),
                     NATIVE_ERROR_GET_ACL_ENTRY_PERMSET_FAILED) : m \in {v}})

(* --------------------- OpenFileAndReadPermissionData ------------------- *)

\* A group field that leaves out the set-group-ID bit.
DecodeGroup_noSetId(mode) ==
      (IF Has(mode, S_IRGRP) THEN FILE_PERMISSION_READ ELSE FILE_PERMISSION_NONE)
    + (IF Has(mode, S_IWGRP) THEN FILE_PERMISSION_WRITE ELSE FILE_PERMISSION_NONE)
    + (IF Has(mode, S_IXGRP) THEN FILE_PERMISSION_EXECUTE ELSE FILE_PERMISSION_NONE)

\* The permission triple the code derives from st_mode.
DecodeOwner(mode) ==
      (IF Has(mode, S_IRUSR) THEN FILE_PERMISSION_READ ELSE FILE_PERMISSION_NONE)
    + (IF Has(mode, S_IWUSR) THEN FILE_PERMISSION_WRITE ELSE FILE_PERMISSION_NONE)
    + (IF Has(mode, S_IXUSR) THEN FILE_PERMISSION_EXECUTE ELSE FILE_PERMISSION_NONE)
    + (IF Has(mode, S_ISUID) THEN FILE_PERMISSION_SETID ELSE FILE_PERMISSION_NONE)
    + (IF Has(mode, S_ISVTX) THEN FILE_PERMISSION_STICKY ELSE FILE_PERMISSION_NONE)
DecodeGroup(mode) ==
      (IF Has(mode, S_IRGRP) THEN FILE_PERMISSION_READ ELSE FILE_PERMISSION_NONE)
    + (IF Has(mode, S_IWGRP) THEN FILE_PERMISSION_WRITE ELSE FILE_PERMISSION_NONE)
    + (IF Has(mode, S_IXGRP) THEN FILE_PERMISSION_EXECUTE ELSE FILE_PERMISSION_NONE)
    + (IF Has(mode, S_ISGID) THEN FILE_PERMISSION_SETID ELSE FILE_PERMISSION_NONE)
DecodeOther(mode) ==
      (IF Has(mode, S_IROTH) THEN FILE_PERMISSION_READ ELSE FILE_PERMISSION_NONE)
    + (IF Has(mode, S_IWOTH) THEN FILE_PERMISSION_WRITE ELSE FILE_PERMISSION_NONE)
    + (IF Has(mode, S_IXOTH) THEN FILE_PERMISSION_EXECUTE ELSE FILE_PERMISSION_NONE)

\* "Fill basic permission fields".  The source names the group member of
\* struct stat st_git; the group id fstat reported, st_gid, is what is meant.
FillPermissions(v) ==
    The({IF m.returned THEN m
         ELSE [m EXCEPT
                 !.dc.ownerId = ToI32(FileOf(m, m._fd).st_uid),
                 !.dc.groupId = ToI32(FileOf(m, m._fd).st_gid),
                 !.dc.ownerPermissions = DecodeOwner(FileOf(m, m._fd).st_mode),
                 !.dc.groupPermissions = DecodeGroup(FileOf(m, m._fd).st_mode),
                 !.dc.otherPermissions = DecodeOther(FileOf(m, m._fd).st_mode)] :
            m \in {v}})

\* _acl = acl_get_fd(_fd, loadDefaultAcl > 0 ? ACL_TYPE_DEFAULT : ACL_TYPE_ACCESS);
GetAcl(m, loadDefaultAcl) ==
    The({[g EXCEPT !._acl = g.rv] :
            g \in {acl_get_fd(m, m._fd, IF loadDefaultAcl > 0 THEN "ACL_TYPE_DEFAULT"
                                         ELSE "ACL_TYPE_ACCESS")}})

\* "Try to load ACL".
LoadAcl(v, loadDefaultAcl) ==
    The({IF m.returned THEN m
         ELSE OrFailNull(GetAcl(m, loadDefaultAcl), NATIVE_ERROR_GET_ACL_FAILED) :
            m \in {v}})

\* while(aclStatus > 0) { ++aclSize; aclStatus = acl_get_entry(...); } where
\* v.rv is aclStatus.
RECURSIVE CountEntries(_, _)
CountEntries(v, aclSize) ==
    The({IF m.rv > 0
         THEN CountEntries(acl_get_entry(m, m._acl, "ACL_NEXT_ENTRY"), aclSize + 1)
         ELSE [m |-> m, aclSize |-> aclSize] : m \in {v}})

\* if(aclStatus < 0) { ... } dataContainer->aclSize = (int32_t)aclSize;
SetAclSize(c) ==
    IF c.m.rv < 0
    THEN cleanup_with_error_code(store_errno(c.m), NATIVE_ERROR_GET_ACL_ENTRY_FAILED)
    ELSE [c.m EXCEPT !.dc.aclSize = c.aclSize]

\* "Iterate ACL and determine entry count".
CountAcl(v) ==
    The({IF m.returned THEN m
         ELSE The({SetAclSize(c) :
                     c \in {CountEntries(acl_get_entry(m, m._acl, "ACL_FIRST_ENTRY"),
                                         0)}}) :
            m \in {v}})

\* "Done": return NATIVE_ERROR_SUCCESS, the descriptor and the ACL stay held.
ReturnSuccess(v) ==
    The({IF m.returned THEN m ELSE Return(m, NATIVE_ERROR_SUCCESS) : m \in {v}})

OpenFileAndReadPermissionData(m, fileName, loadDefaultAcl) ==
    LET opened  == OpenFd(ResetErrno(m), fileName)
        statted == StatFd(opened)
        filled  == FillPermissions(statted)
        loaded  == LoadAcl(filled, loadDefaultAcl)
        counted == CountAcl(loaded)
    IN ReturnSuccess(counted)

(* --------------------------- ReadFileAclAndClose ----------------------- *)

\* A store into the element after the one the loop is at.
Store_next(m, i, field, v) ==
    [m EXCEPT !.written = @ \cup {i + 1},
              !.ents = IF i + 1 < Len(@) THEN [@ EXCEPT ![i + 2][field] = v] ELSE @]

\* e->field = v for e = &entries[i]: the store lands in the caller's array
\* when i is inside it, and is recorded in written either way.
Store(m, i, field, v) ==
    [m EXCEPT !.written = @ \cup {i},
              !.ents = IF i < Len(@) THEN [@ EXCEPT ![i + 1][field] = v] ELSE @]

\* A switch whose default case stores 0.
DecodeTag_zeroing(m, i, tagType) ==
    CASE tagType = "ACL_USER_OBJ"  -> Store(m, i, "tagType", ACL_ENTRY_TAG_TYPE_USER_OBJ)
      [] tagType = "ACL_USER"      -> Store(m, i, "tagType", ACL_ENTRY_TAG_TYPE_USER)
      [] tagType = "ACL_GROUP_OBJ" -> Store(m, i, "tagType", ACL_ENTRY_TAG_TYPE_GROUP_OBJ)
      [] tagType = "ACL_GROUP"     -> Store(m, i, "tagType", ACL_ENTRY_TAG_TYPE_GROUP)
      [] tagType = "ACL_MASK"      -> Store(m, i, "tagType", ACL_ENTRY_TAG_TYPE_MASK)
      [] tagType = "ACL_OTHER"     -> Store(m, i, "tagType", ACL_ENTRY_TAG_TYPE_OTHER)
      [] OTHER -> Store(m, i, "tagType", 0)

\* First switch of the loop body: the tag types it assigns.
DecodeTag(m, i, tagType) ==
    CASE tagType = "ACL_USER_OBJ"  -> Store(m, i, "tagType", ACL_ENTRY_TAG_TYPE_USER_OBJ)
      [] tagType = "ACL_USER"      -> Store(m, i, "tagType", ACL_ENTRY_TAG_TYPE_USER)
      [] tagType = "ACL_GROUP_OBJ" -> Store(m, i, "tagType", ACL_ENTRY_TAG_TYPE_GROUP_OBJ)
      [] tagType = "ACL_GROUP"     -> Store(m, i, "tagType", ACL_ENTRY_TAG_TYPE_GROUP)
      [] tagType = "ACL_MASK"      -> Store(m, i, "tagType", ACL_ENTRY_TAG_TYPE_MASK)
      [] tagType = "ACL_OTHER"     -> Store(m, i, "tagType", ACL_ENTRY_TAG_TYPE_OTHER)
      [] OTHER -> m

\* acl_get_tag_type(currEntry, &tagType) with its error return.
GetTagType(v) ==
    The({IF m.returned THEN m
         ELSE OrFail(acl_call(m, "acl_get_tag_type", m._acl),
                     NATIVE_ERROR_GET_ACL_ENTRY_TAG_TYPE_FAILED) : m \in {v}})

\* "Set tag type".
SetOutTagType(v, i) ==
    The({IF m.returned THEN m ELSE DecodeTag(m, i, CurrEntry(m, m._acl).tag) :
            m \in {v}})

\* A qualifier read as a value of 16 bits.
GetQualifier_low16(m, i) ==
    The({IF q.returned THEN q
         ELSE Called(Store(q, i, "tagQualifier", CurrEntry(q, q._acl).qual[2]),
                     "acl_free_qualifier", q._acl, TRUE, 0, 0) :
            q \in {OrFail(acl_call(m, "acl_get_qualifier", m._acl),
                          NATIVE_ERROR_GET_ACL_ENTRY_QUALIFIER_FAILED)}})

\* tagQualifier = acl_get_qualifier(currEntry) with its error return (the null
\* pointer, here a negative result), the store of the value it points to, and
\* acl_free(tagQualifier).
GetQualifier(m, i) ==
    The({IF q.returned THEN q
         ELSE Called(Store(q, i, "tagQualifier", ToI32(CurrEntry(q, q._acl).qual)),
                     "acl_free_qualifier", q._acl, TRUE, 0, 0) :
            q \in {OrFail(acl_call(m, "acl_get_qualifier", m._acl),
                          NATIVE_ERROR_GET_ACL_ENTRY_QUALIFIER_FAILED)}})

\* "Set tag qualifier": the second switch of the loop body.
SetOutQualifier(v, i) ==
    The({IF m.returned THEN m
         ELSE IF CurrEntry(m, m._acl).tag \in {"ACL_USER", "ACL_GROUP"}
         THEN GetQualifier(m, i)
         ELSE Store(m, i, "tagQualifier", 0) : m \in {v}})

\* e->permissions as composed from the three acl_get_perm results.
DecodePerms(perms) ==
      (IF "ACL_READ" \in perms THEN FILE_PERMISSION_READ ELSE FILE_PERMISSION_NONE)
    + (IF "ACL_WRITE" \in perms THEN FILE_PERMISSION_WRITE ELSE FILE_PERMISSION_NONE)
    + (IF "ACL_EXECUTE" \in perms THEN FILE_PERMISSION_EXECUTE ELSE FILE_PERMISSION_NONE)

\* acl_get_perm(permset, perm) with its error return.
GetPerm(v) ==
    The({IF m.returned THEN m
         ELSE OrFail(acl_call(m, "acl_get_perm", m._acl),
                     NATIVE_ERROR_GET_ACL_ENTRY_PERM_FAILED) : m \in {v}})

\* e->permissions = ...
SetOutPermissions(v, i) ==
    The({IF m.returned THEN m
         ELSE Store(m, i, "permissions", DecodePerms(CurrEntry(m, m._acl).perms)) :
            m \in {v}})

\* "Next entry".
NextEntry(v) ==
    The({IF m.returned THEN m ELSE acl_get_entry(m, m._acl, "ACL_NEXT_ENTRY") :
            m \in {v}})

\* The body of the loop over the held ACL, for output index i.
ReadEntry(m, i) ==
    LET tagType    == GetTagType(m)
        tagged     == SetOutTagType(tagType, i)
        qualified  == SetOutQualifier(tagged, i)
        permset    == GetPermset(qualified)
        canRead    == GetPerm(permset)
        canWrite   == GetPerm(canRead)
        canExecute == GetPerm(canWrite)
        stored     == SetOutPermissions(canExecute, i)
    IN NextEntry(stored)

\* while(aclStatus > 0) { ...; ++i; } where v.rv is aclStatus.
RECURSIVE ReadLoop(_, _)
ReadLoop(v, i) ==
    The({IF m.returned \/ m.rv <= 0 THEN m ELSE ReadLoop(ReadEntry(m, i), i + 1) :
            m \in {v}})

\* acl_get_entry(_acl, ACL_FIRST_ENTRY, &currEntry); entries is the caller's
\* array as it is passed in.
FirstEntry(v, entries) ==
    The({acl_get_entry([m EXCEPT !.ents = entries], m._acl, "ACL_FIRST_ENTRY") :
            m \in {v}})

\* if(aclStatus < 0) { ... } and "Done".
CloseAcl(v) ==
    The({IF m.returned THEN m
         ELSE IF m.rv < 0
         THEN cleanup_with_error_code(store_errno(m),
                                      NATIVE_ERROR_GET_ACL_ENTRY_FAILED)
         ELSE cleanup_with_error_code(m, NATIVE_ERROR_SUCCESS) : m \in {v}})

ReadFileAclAndClose(m, entries) ==
    CloseAcl(ReadLoop(FirstEntry(ResetErrno(m), entries), 0))

(* ----------------------- SetFilePermissionDataAndAcl ------------------- *)

\* fchown(fd, owner, group): an id of (uid_t)-1 leaves that identity as it is.
sys_fchown(m, d, owner, group) ==
    LET ok == ~Injected(m) /\ IsOpenFd(m, d)
        p == m.fdTable[d]
        m1 == CalledB(m, "fchown", owner, group, ok, IF ok THEN 0 ELSE -1,
                      IF IsOpenFd(m, d) THEN m.e ELSE EBADF)
    IN IF ok
       THEN [m1 EXCEPT !.files[p].st_uid = IF owner = ToU32(-1) THEN @ ELSE owner,
                       !.files[p].st_gid = IF group = ToU32(-1) THEN @ ELSE group]
       ELSE m1

\* fchmod(fd, mode).
sys_fchmod(m, d, mode) ==
    LET ok == ~Injected(m) /\ IsOpenFd(m, d)
        m1 == CalledB(m, "fchmod", d, mode, ok, IF ok THEN 0 ELSE -1,
                      IF IsOpenFd(m, d) THEN m.e ELSE EBADF)
    IN IF ok THEN [m1 EXCEPT !.files[m.fdTable[d]].st_mode = mode] ELSE m1

\* acl_create_entry(&acl, &entry): appends a blank entry, which becomes the
\* current one.
acl_create_entry(m, h) ==
    LET ok == ~Injected(m) /\ IsLiveAcl(m, h)
        m1 == Called(m, "acl_create_entry", h, ok, IF ok THEN 0 ELSE -1,
                     IF IsLiveAcl(m, h) THEN m.e ELSE EINVAL)
    IN IF ok
       THEN [m1 EXCEPT !.heap[h].entries = Append(@, BlankEntry),
                       !.heap[h].pos = Len(m.heap[h].entries) + 1]
       ELSE m1

\* A libacl call that sets one field of the entry under construction.
acl_set(m, name, h, field, v) ==
    LET ok == ~Injected(m)
        m1 == Called(m, name, h, ok, IF ok THEN 0 ELSE -1, m.e)
    IN IF ok THEN [m1 EXCEPT !.heap[h].entries[m.heap[h].pos][field] = v] ELSE m1

\* acl_add_perm(permset, perm).
acl_add_perm(m, h, perm) ==
    LET ok == ~Injected(m)
        m1 == Called(m, "acl_add_perm", h, ok, IF ok THEN 0 ELSE -1, m.e)
    IN IF ok THEN [m1 EXCEPT !.heap[h].entries[m.heap[h].pos].perms = @ \cup {perm}]
       ELSE m1

\* acl_set_fd(fd, acl): replaces the object's access ACL by a valid ACL.
acl_set_fd(m, d, h) ==
    LET ok == /\ ~Injected(m) /\ IsOpenFd(m, d) /\ IsLiveAcl(m, h)
              /\ ValidAcl(m.heap[h].entries)
        m1 == Called(m, "acl_set_fd", d, ok, IF ok THEN 0 ELSE -1,
                     IF ~IsOpenFd(m, d) THEN EBADF
                     ELSE IF ~(IsLiveAcl(m, h) /\ ValidAcl(m.heap[h].entries))
                     THEN EINVAL ELSE m.e)
    IN IF ok
       THEN [m1 EXCEPT !.files[m.fdTable[d]].access = m.heap[h].entries]
       ELSE m1

\* The mode the code builds from the three permission fields.
ChmodBits(dataContainer) ==
      (IF Has(dataContainer.ownerPermissions, FILE_PERMISSION_READ) THEN S_IRUSR ELSE 0)
    + (IF Has(dataContainer.ownerPermissions, FILE_PERMISSION_WRITE) THEN S_IWUSR ELSE 0)
    + (IF Has(dataContainer.ownerPermissions, FILE_PERMISSION_EXECUTE) THEN S_IXUSR ELSE 0)
    + (IF Has(dataContainer.ownerPermissions, FILE_PERMISSION_SETID) THEN S_ISUID ELSE 0)
    + (IF Has(dataContainer.ownerPermissions, FILE_PERMISSION_STICKY) THEN S_ISVTX ELSE 0)
    + (IF Has(dataContainer.groupPermissions, FILE_PERMISSION_READ) THEN S_IRGRP ELSE 0)
    + (IF Has(dataContainer.groupPermissions, FILE_PERMISSION_WRITE) THEN S_IWGRP ELSE 0)
    + (IF Has(dataContainer.groupPermissions, FILE_PERMISSION_EXECUTE) THEN S_IXGRP ELSE 0)
    + (IF Has(dataContainer.groupPermissions, FILE_PERMISSION_SETID) THEN S_ISGID ELSE 0)
    + (IF Has(dataContainer.otherPermissions, FILE_PERMISSION_READ) THEN S_IROTH ELSE 0)
    + (IF Has(dataContainer.otherPermissions, FILE_PERMISSION_WRITE) THEN S_IWOTH ELSE 0)
    + (IF Has(dataContainer.otherPermissions, FILE_PERMISSION_EXECUTE) THEN S_IXOTH ELSE 0)

\* A switch whose default case takes the entry for ACL_OTHER.
EncodeTag_lenient(tagType) ==
    CASE tagType = ACL_ENTRY_TAG_TYPE_USER_OBJ  -> "ACL_USER_OBJ"
      [] tagType = ACL_ENTRY_TAG_TYPE_USER      -> "ACL_USER"
      [] tagType = ACL_ENTRY_TAG_TYPE_GROUP_OBJ -> "ACL_GROUP_OBJ"
      [] tagType = ACL_ENTRY_TAG_TYPE_GROUP     -> "ACL_GROUP"
      [] tagType = ACL_ENTRY_TAG_TYPE_MASK      -> "ACL_MASK"
      [] OTHER -> "ACL_OTHER"

\* The switch that maps entryData->tagType; "invalid" stands for its default.
EncodeTag(tagType) ==
    CASE tagType = ACL_ENTRY_TAG_TYPE_USER_OBJ  -> "ACL_USER_OBJ"
      [] tagType = ACL_ENTRY_TAG_TYPE_USER      -> "ACL_USER"
      [] tagType = ACL_ENTRY_TAG_TYPE_GROUP_OBJ -> "ACL_GROUP_OBJ"
      [] tagType = ACL_ENTRY_TAG_TYPE_GROUP     -> "ACL_GROUP"
      [] tagType = ACL_ENTRY_TAG_TYPE_MASK      -> "ACL_MASK"
      [] tagType = ACL_ENTRY_TAG_TYPE_OTHER     -> "ACL_OTHER"
      [] OTHER -> "invalid"

\* acl_create_entry(&_acl, &aclEntry) with its error return.
CreateEntry(m) ==
    OrFail(acl_create_entry(m, m._acl), NATIVE_ERROR_CREATE_ACL_ENTRY_FAILED)

\* "Assign tag type": the switch on entryData->tagType, whose default case
\* returns without store_errno, and acl_set_tag_type.
SetTagType(v, entryData) ==
    The({IF m.returned THEN m
         ELSE IF EncodeTag(entryData.tagType) = "invalid"
         THEN cleanup_with_error_code(m, NATIVE_ERROR_INVALID_TAG_TYPE)
         ELSE OrFail(acl_set(m, "acl_set_tag_type", m._acl, "tag",
                             EncodeTag(entryData.tagType)),
                     NATIVE_ERROR_SET_ACL_ENTRY_TAG_TYPE_FAILED) : m \in {v}})

\* A qualifier that is set whatever the tag type is.
SetQualifier_always(v, entryData) ==
    The({IF m.returned THEN m
         ELSE OrFail(acl_set(m, "acl_set_qualifier", m._acl, "qual",
                             ToU32(entryData.tagQualifier)),
                     NATIVE_ERROR_SET_ACL_ENTRY_QUALIFIER_FAILED) : m \in {v}})

\* "Assign tag qualifier".
SetQualifier(v, entryData) ==
    The({IF m.returned THEN m
         ELSE IF entryData.tagType \in {ACL_ENTRY_TAG_TYPE_USER,
                                        ACL_ENTRY_TAG_TYPE_GROUP}
         THEN OrFail(acl_set(m, "acl_set_qualifier", m._acl, "qual",
                             ToU32(entryData.tagQualifier)),
                     NATIVE_ERROR_SET_ACL_ENTRY_QUALIFIER_FAILED)
         ELSE m : m \in {v}})

\* acl_clear_perms(permset) with its error return.
ClearPerms(v) ==
    The({IF m.returned THEN m
         ELSE OrFail(acl_set(m, "acl_clear_perms", m._acl, "perms", {}),
                     NATIVE_ERROR_CLEAR_ACL_ENTRY_PERMS_FAILED) : m \in {v}})

\* if((permissions & flag) && acl_add_perm(permset, perm) < 0) { ... }: the
\* call is made only when the flag is set.
AddPermIf(v, permissions, flag, perm) ==
    The({IF m.returned \/ ~Has(permissions, flag) THEN m
         ELSE OrFail(acl_add_perm(m, m._acl, perm),
                     NATIVE_ERROR_ADD_ACL_ENTRY_PERM_FAILED) : m \in {v}})

\* The body of the loop that builds the entries, for one entryData.
BuildEntry(m, entryData) ==
    LET created   == CreateEntry(m)
        tagged    == SetTagType(created, entryData)
        qualified == SetQualifier(tagged, entryData)
        permset   == GetPermset(qualified)
        cleared   == ClearPerms(permset)
        r == AddPermIf(cleared, entryData.permissions, FILE_PERMISSION_READ, "ACL_READ")
        w == AddPermIf(r, entryData.permissions, FILE_PERMISSION_WRITE, "ACL_WRITE")
    IN AddPermIf(w, entryData.permissions, FILE_PERMISSION_EXECUTE, "ACL_EXECUTE")

\* for(int i = 0; i < dataContainer->aclSize; ++i)
RECURSIVE BuildLoop(_, _, _, _)
BuildLoop(v, i, aclSize, entries) ==
    The({IF m.returned \/ i >= aclSize THEN m
         ELSE BuildLoop(BuildEntry(m, entries[i + 1]), i + 1, aclSize, entries) :
            m \in {v}})

\* newOwner / newGroup: the requested id when it differs from the current
\* one, (uid_t)-1 otherwise; the comparison is made on unsigned values.
NewId(requested, current) ==
    IF ToU32(requested) # current THEN ToU32(requested) ELSE ToU32(-1)

\* An fchown that is always made.
DoChown_always(newOwner, newGroup) == TRUE

\* newOwner != -1 || newGroup != -1
DoChown(newOwner, newGroup) == newOwner # ToU32(-1) \/ newGroup # ToU32(-1)

\* if((newOwner != -1 || newGroup != -1) && fchown(_fd, newOwner, newGroup) < 0)
Chown(m, newOwner, newGroup) ==
    IF DoChown(newOwner, newGroup)
    THEN OrFail(sys_fchown(m, m._fd, newOwner, newGroup), NATIVE_ERROR_CHOWN_FAILED)
    ELSE m

\* "Change owner and group".
ChangeOwner(v, dataContainer) ==
    The({IF m.returned THEN m
         ELSE Chown(m, NewId(dataContainer.ownerId, FileOf(m, m._fd).st_uid),
                       NewId(dataContainer.groupId, FileOf(m, m._fd).st_gid)) :
            m \in {v}})

\* "Build standard permission bitfield" and the fchmod.
ChangeMode(v, dataContainer) ==
    The({IF m.returned THEN m
         ELSE OrFail(sys_fchmod(m, m._fd, ChmodBits(dataContainer)),
                     NATIVE_ERROR_CHMOD_FAILED) : m \in {v}})

\* The mode changed before the owner.
WriteOwnerAndMode_modeFirst(v, dataContainer) ==
    ChangeOwner(ChangeMode(StatFd(v), dataContainer), dataContainer)

\* "Read file metadata", "Change owner and group" and "Build standard
\* permission bitfield", up to the fchmod.
WriteOwnerAndMode(v, dataContainer) ==
    ChangeMode(ChangeOwner(StatFd(v), dataContainer), dataContainer)

\* _acl = acl_init(dataContainer->aclSize);
NewAcl(m, dataContainer) ==
    The({[a EXCEPT !._acl = a.rv] : a \in {acl_init(m, dataContainer.aclSize)}})

\* "Create new ACL".
InitAcl(v, dataContainer) ==
    The({IF m.returned THEN m
         ELSE OrFailNull(NewAcl(m, dataContainer), NATIVE_ERROR_INIT_ACL_FAILED) :
            m \in {v}})

\* "Validate ACL".
ValidateAcl(v) ==
    The({IF m.returned THEN m
         ELSE OrFail(acl_valid(m, m._acl),
                     NATIVE_ERROR_VALIDATE_ACL_FAILED) : m \in {v}})

\* "Assign ACL to file".
AssignAcl(v) ==
    The({IF m.returned THEN m
         ELSE OrFail(acl_set_fd(m, m._fd, m._acl), NATIVE_ERROR_SET_ACL_FAILED) :
            m \in {v}})

\* An ACL that is assigned to the file before it is validated.
WriteAcl_unvalidated(v, dataContainer, entries) ==
    LET created  == InitAcl(v, dataContainer)
        built    == BuildLoop(created, 0, dataContainer.aclSize, entries)
        assigned == AssignAcl(built)
    IN ValidateAcl(assigned)

\* "Create new ACL", "Build ACL entries", "Validate ACL" and "Assign ACL to
\* file".
WriteAcl(v, dataContainer, entries) ==
    LET created   == InitAcl(v, dataContainer)
        built     == BuildLoop(created, 0, dataContainer.aclSize, entries)
        validated == ValidateAcl(built)
    IN AssignAcl(validated)

\* "Done": return cleanup_with_error_code(NATIVE_ERROR_SUCCESS).
Finish(v) ==
    The({IF m.returned THEN m
         ELSE cleanup_with_error_code(m, NATIVE_ERROR_SUCCESS) : m \in {v}})

\* The ACL written before owner and mode.
SetFilePermissionDataAndAcl_aclFirst(m, fileName, setDefaultAcl, dataContainer, entries) ==
    LET opened == OpenFd(ResetErrno(m), fileName)
        acl    == WriteAcl(opened, dataContainer, entries)
        mode   == WriteOwnerAndMode(acl, dataContainer)
    IN Finish(mode)

SetFilePermissionDataAndAcl(m, fileName, setDefaultAcl, dataContainer, entries) ==
    LET opened == OpenFd(ResetErrno(m), fileName)
        mode   == WriteOwnerAndMode(opened, dataContainer)
        acl    == WriteAcl(mode, dataContainer, entries)
    IN Finish(acl)

(* ------------------------------ GetLastErrnoValue ---------------------- *)

\* A query that consumes the record it returns.
GetLastErrnoValue_consuming(m) ==
    [buffer |-> IF m._lastErrnoValue = 0 THEN "" ELSE m._lastErrnoString,
     value |-> m._lastErrnoValue,
     m |-> [m EXCEPT !._lastErrnoValue = 0]]

\* The two results of GetLastErrnoValue, the buffer contents and the value
\* returned, and the program as the function leaves it: it assigns to none
\* of the globals.
GetLastErrnoValue(m) ==
    [buffer |-> IF m._lastErrnoValue = 0 THEN "" ELSE m._lastErrnoString,
     value |-> m._lastErrnoValue,
     m |-> m]

(* -------------------------------- inputs ------------------------------- *)

Container(o, op_, g, gp, tp, n) ==
    [ownerId |-> o, ownerPermissions |-> op_, groupId |-> g,
     groupPermissions |-> gp, otherPermissions |-> tp, aclSize |-> n]

\* Entry arrays handed to SetFilePermissionDataAndAcl: a minimal ACL, an
\* array whose second entry has no defined tag type, and none.
EntriesMinimal == << NativeEntry(ACL_ENTRY_TAG_TYPE_USER_OBJ, 0, 6),
                     NativeEntry(ACL_ENTRY_TAG_TYPE_GROUP_OBJ, 77, 12),
                     NativeEntry(ACL_ENTRY_TAG_TYPE_OTHER, 0, 0) >>
EntriesBadTag == << NativeEntry(ACL_ENTRY_TAG_TYPE_GROUP, -294967296, 5),
                    NativeEntry(7, 0, 7) >>

Request(d, c, es) == [defaultAcl |-> d, dataContainer |-> c, entries |-> es]

\* Requests the session specification issues: a new owner and a new mode with
\* a default ACL, the same with the bad array, and a new group with the mode
\* the directory has from the start.
SessionWrites ==
    { Request(1, Container(1000, 31, 0, 13, 5, 3), EntriesMinimal),
      Request(0, Container(1000, 31, 0, 13, 5, 2), EntriesBadTag),
      Request(0, Container(-1, 7, 100, 5, 5, 0), << >>) }

\* The number of underlying calls of a run the environment leaves alone: the
\* calls it can choose to fail are the first, the second, ... of these.
Calls(m) == Len(m.trace)

(* -------------------------------- actions ------------------------------ *)

\* The caller is between calls: it holds no results of a previous call.
Cleared == op = "none" /\ ~queried

\* The program state an operation leaves behind.
Commit(m) ==
    /\ _fd' = m._fd
    /\ _acl' = m._acl
    /\ _lastErrnoValue' = m._lastErrnoValue
    /\ _lastErrnoString' = m._lastErrnoString
    /\ fdTable' = m.fdTable
    /\ heap' = m.heap
    /\ files' = m.files

\* The pending read, with one more operation called before its second phase.
Overlapped == [pending EXCEPT !.overlaps = IF @ < 2 THEN @ + 1 ELSE @]

OpenAndRead(fileName, loadDefaultAcl, e) ==
    /\ Cleared
    /\ \E failAt \in 0..Calls(OpenFileAndReadPermissionData(
                               Machine(0, e), fileName, loadDefaultAcl)) :
       \E m \in {OpenFileAndReadPermissionData(Machine(failAt, e), fileName,
                                               loadDefaultAcl)} :
          /\ Commit(m)
          /\ op' = "OpenFileAndReadPermissionData"
          /\ inp' = [NoInput EXCEPT !.fileName = fileName,
                                    !.defaultAcl = loadDefaultAcl]
          /\ entry' = Entry
          /\ ret' = m.ret
          /\ trace' = m.trace
          /\ outContainer' = m.dc
          /\ lastCount' = IF m.ret = NATIVE_ERROR_SUCCESS THEN m.dc.aclSize
                          ELSE lastCount
          /\ pending' = IF pending # NoPending THEN Overlapped
                        ELSE IF m.ret = NATIVE_ERROR_SUCCESS
                        THEN [fd |-> m._fd, acl |-> m._acl,
                              entries |-> m.heap[m._acl].entries,
                              count |-> m.dc.aclSize, overlaps |-> 0]
                        ELSE NoPending
          /\ UNCHANGED << outEntries, written, queried, outErrno, outBuffer, kept >>

\* An array of n zero-initialised elements.
NewArray(n) == [j \in 1..n |-> EmptyEntry]

\* The caller passes a new array sized by the count its last successful first
\* phase returned.
ReadAclAndClose(e) ==
    /\ Cleared
    /\ \E failAt \in 0..Calls(ReadFileAclAndClose(Machine(0, e), NewArray(lastCount))) :
       \E m \in {ReadFileAclAndClose(Machine(failAt, e), NewArray(lastCount))} :
          /\ Commit(m)
          /\ op' = "ReadFileAclAndClose"
          /\ inp' = NoInput
          /\ entry' = Entry
          /\ ret' = m.ret
          /\ trace' = m.trace
          /\ outEntries' = m.ents
          /\ written' = m.written
          /\ lastCount' = 0
          /\ pending' = NoPending
          /\ UNCHANGED << outContainer, queried, outErrno, outBuffer, kept >>

WriteAll(fileName, setDefaultAcl, dataContainer, entries, e) ==
    /\ Cleared
    /\ \E failAt \in 0..Calls(SetFilePermissionDataAndAcl(
                               Machine(0, e), fileName, setDefaultAcl,
                               dataContainer, entries)) :
       \E m \in {SetFilePermissionDataAndAcl(Machine(failAt, e), fileName,
                                             setDefaultAcl, dataContainer,
                                             entries)} :
          /\ Commit(m)
          /\ op' = "SetFilePermissionDataAndAcl"
          /\ inp' = [fileName |-> fileName, defaultAcl |-> setDefaultAcl,
                     dataContainer |-> dataContainer, entries |-> entries]
          /\ entry' = Entry
          /\ ret' = m.ret
          /\ trace' = m.trace
          /\ pending' = IF pending # NoPending THEN Overlapped ELSE NoPending
          /\ UNCHANGED << outContainer, outEntries, written, queried, outErrno,
                          outBuffer, lastCount, kept >>

GetLastError ==
    /\ \E r \in {GetLastErrnoValue(Machine(0, 0))} :
          /\ Commit(r.m)
          /\ outErrno' = r.value
          /\ outBuffer' = r.buffer
    /\ queried' = TRUE
    /\ UNCHANGED << op, inp, entry, ret, trace, outContainer, outEntries, written,
                    caller >>

\* The caller takes the results of the last call and goes on.
Forget ==
    /\ ~Cleared
    /\ op' = "none"
    /\ inp' = NoInput
    /\ entry' = NoEntry
    /\ ret' = NATIVE_ERROR_SUCCESS
    /\ trace' = << >>
    /\ outContainer' = EmptyContainer
    /\ outEntries' = << >>
    /\ written' = {}
    /\ queried' = FALSE
    /\ outErrno' = 0
    /\ outBuffer' = ""
    /\ UNCHANGED << prog, caller >>

Next ==
    \/ \E fileName \in Paths, loadDefaultAcl \in {0, 1},
          e \in EnvErrnos :
          OpenAndRead(fileName, loadDefaultAcl, e)
    \/ \E e \in EnvErrnos : ReadAclAndClose(e)
    \/ \E fileName \in Paths, w \in SessionWrites,
          e \in EnvErrnos :
          WriteAll(fileName, w.defaultAcl, w.dataContainer, w.entries, e)
    \/ GetLastError
    \/ Forget

Spec == Init /\ [][Next]_vars

(* ------------------------ vocabulary of the claims --------------------- *)

OPEN_AND_READ == "OpenFileAndReadPermissionData"
READ_AND_CLOSE == "ReadFileAclAndClose"
WRITE_ALL == "SetFilePermissionDataAndAcl"

\* Positions of the calls of one name in a trace.
Events(tr, name) == {i \in DOMAIN tr : tr[i].call = name}

\* Descriptors a trace opened and ACL handles it allocated.
OpenedBy(tr) == {tr[i].a : i \in {j \in Events(tr, "open") : tr[j].ok}}
AllocatedBy(tr) ==
    {tr[i].a : i \in {j \in Events(tr, "acl_get_fd") \cup Events(tr, "acl_init") :
                        tr[j].ok}}

\* The close() calls a trace made on d, the acl_free() calls it made on h.
Closes(tr, d) == {i \in Events(tr, "close") : tr[i].a = d}
Frees(tr, h) == {i \in Events(tr, "acl_free") : tr[i].a = h}
ClosedBy(tr) == {tr[i].a : i \in Events(tr, "close")}
FreedBy(tr) == {tr[i].a : i \in Events(tr, "acl_free")}

OpenFds(x) == {d \in FdPool : x.fdTable[d] \in Paths}
LiveAcls(x) == {h \in AclPool : x.heap[h].live}
Now == [_fd |-> _fd, _acl |-> _acl, fdTable |-> fdTable, heap |-> heap, files |-> files]

\* No descriptor is open and no ACL handle is allocated.
Idle(x) == OpenFds(x) = {} /\ LiveAcls(x) = {}

\* Exactly the descriptor and the handle in the two slots are held.
Loaded(x) == OpenFds(x) = {x._fd} /\ LiveAcls(x) = {x._acl}

\* The step is a call of one of the three operations (GetLastErrnoValue and
\* the caller's Forget are the other steps).
IsCall == Cleared /\ op' # "none"

\* The object a call of an operation was made on, before and after it.
Before == entry.files[inp.fileName]
After == files[inp.fileName]

\* The platform entry the write loop builds from one native entry, and the
\* native entry the read loop stores for one platform entry with a known tag.
PermSet(permissions) ==
    {perm \in {"ACL_READ", "ACL_WRITE", "ACL_EXECUTE"} :
        Has(permissions, DecodePerms({perm}))}
EncodedEntry(e) ==
    PlatformEntry(EncodeTag(e.tagType),
                  IF e.tagType \in {ACL_ENTRY_TAG_TYPE_USER, ACL_ENTRY_TAG_TYPE_GROUP}
                  THEN ToU32(e.tagQualifier) ELSE ACL_UNDEFINED_ID,
                  PermSet(e.permissions))
DecodedEntry(p) ==
    NativeEntry(CHOOSE t \in 1..6 : EncodeTag(t) = p.tag,
                IF p.tag \in {"ACL_USER", "ACL_GROUP"} THEN ToI32(p.qual) ELSE 0,
                DecodePerms(p.perms))

\* Every underlying call of the operation succeeded.
NoCallFailed == \A i \in DOMAIN trace : trace[i].ok

(* --------------- the caller that writes back and reads back ------------ *)

\* A second caller of the same operations: it uses them one after the other,
\* reads the permissions and the ACL of the object, writes what it has at
\* hand (what it read last, or a request chosen at the start), and reads it
\* back.  Its environment fails no call: this specification is about the
\* values that pass through the operations.

\* Every st_mode of the twelve permission bits.
AllModes == 0..(2 * S_ISUID - 1)

\* The access ACL acl_get_fd returns for an object that has none beyond its
\* mode: the three entries of the mode's classes.
AclOfMode(mode) ==
    << PlatformEntry("ACL_USER_OBJ", ACL_UNDEFINED_ID, PermSet(DecodeOwner(mode))),
       PlatformEntry("ACL_GROUP_OBJ", ACL_UNDEFINED_ID, PermSet(DecodeGroup(mode))),
       PlatformEntry("ACL_OTHER", ACL_UNDEFINED_ID, PermSet(DecodeOther(mode))) >>

FileOfMode(mode) ==
    [p \in Paths |->
        [st_uid |-> ToU32(0), st_gid |-> ToU32(0), st_mode |-> mode,
         access |-> AclOfMode(mode), default |-> << >>]]

\* An access ACL as a file system that stores what it is given hands it out:
\* its second entry has no tag, its fourth a tag libacl does not define.
AclOdd ==
    << PlatformEntry("ACL_USER_OBJ", ACL_UNDEFINED_ID,
                     {"ACL_READ", "ACL_WRITE", "ACL_EXECUTE"}),
       PlatformEntry("ACL_UNDEFINED_TAG", ToU32(7), {"ACL_READ", "ACL_EXECUTE"}),
       PlatformEntry("ACL_GROUP_OBJ", ACL_UNDEFINED_ID, {"ACL_READ", "ACL_EXECUTE"}),
       PlatformEntry("0x40", ToU32(8), {"ACL_WRITE"}),
       PlatformEntry("ACL_OTHER", ACL_UNDEFINED_ID, {"ACL_READ"}) >>
OddFiles == [p \in Paths |-> [InitFiles[p] EXCEPT !.access = AclOdd]]

\* A request the caller has chosen.
Chosen(c, es) == [origin |-> "chosen", dataContainer |-> c, entries |-> es]

\* One request for every triple of owner, group and other permissions, each
\* restricted to the flags the header allows for it, with the ACL of three
\* entries that grants the same.
TripleRequest(o, g, t) ==
    Chosen(Container(0, o, 0, g, t, 3),
           << NativeEntry(ACL_ENTRY_TAG_TYPE_USER_OBJ, 0, o % 8),
              NativeEntry(ACL_ENTRY_TAG_TYPE_GROUP_OBJ, 0, g % 8),
              NativeEntry(ACL_ENTRY_TAG_TYPE_OTHER, 0, t) >>)
TripleRequests ==
    {TripleRequest(o, g, t) :
        o \in 0..(2 * FILE_PERMISSION_STICKY - 1),
        g \in 0..(2 * FILE_PERMISSION_SETID - 1),
        t \in 0..(2 * FILE_PERMISSION_READ - 1)}

\* Qualifiers over the range of int32_t, and permission fields with and
\* without the flags an ACL entry cannot carry.
QualifierSamples ==
    {0, 1, 1000, 65535, 65536, 2147483647,
     -1, -2, -65536, -294967296, -2147483647 - 1}
PermSamples == {0, 5, 26, 31}

\* An ACL with one named user and one named group.  Every entry carries a
\* qualifier, also the entries whose tag type has none.
ExtendedEntries(q, p) ==
    << NativeEntry(ACL_ENTRY_TAG_TYPE_USER_OBJ, 5, 7),
       NativeEntry(ACL_ENTRY_TAG_TYPE_USER, q, p),
       NativeEntry(ACL_ENTRY_TAG_TYPE_GROUP_OBJ, 77, 5),
       NativeEntry(ACL_ENTRY_TAG_TYPE_GROUP, IF q >= 0 THEN -q - 1 ELSE -(q + 1),
                   31 - p),
       NativeEntry(ACL_ENTRY_TAG_TYPE_MASK, -3, 15),
       NativeEntry(ACL_ENTRY_TAG_TYPE_OTHER, 9, 20) >>

\* The array es with the tag type of its k-th entry replaced.
BadAt(es, k, t) == [es EXCEPT ![k].tagType = t]
\* Tag values outside native_acl_entry_tag_type_t.
BadTags == {0, 7, -1}

EntryArrays ==
    {ExtendedEntries(q, p) : q \in QualifierSamples, p \in PermSamples}
    \cup {BadAt(EntriesMinimal, k, t) : k \in 1..3, t \in BadTags}
    \cup {BadAt(ExtendedEntries(1000, 5), k, t) : k \in 1..6, t \in BadTags}

\* The requests with these arrays, and one whose array holds a fourth entry
\* beyond aclSize.
EntryRequests ==
    {Chosen(Container(0, 7, 0, 5, 5, Len(es)), es) : es \in EntryArrays}
    \cup {Chosen(Container(0, 7, 0, 5, 5, 3),
                 Append(EntriesMinimal, NativeEntry(7, 0, 0)))}

\* What the caller starts from: an object of any mode, or the object with
\* the odd ACL, and nothing at hand; or the directory and a chosen request.
CodecWorlds ==
    {[files |-> FileOfMode(mode), kept |-> NoKept] : mode \in AllModes}
    \cup {[files |-> OddFiles, kept |-> NoKept]}
    \cup {[files |-> InitFiles, kept |-> k] : k \in TripleRequests \cup EntryRequests}

CodecInit ==
    /\ _fd = NULL
    /\ _acl = NULL
    /\ _lastErrnoValue = 0
    /\ _lastErrnoString = ""
    /\ fdTable = [d \in FdPool |-> IF d = 0 THEN STDIN ELSE "closed"]
    /\ heap = [h \in AclPool |-> [live |-> FALSE, entries |-> << >>, pos |-> 0]]
    /\ \E w \in CodecWorlds : files = w.files /\ kept = w.kept
    /\ op = "none"
    /\ inp = NoInput
    /\ entry = NoEntry
    /\ ret = NATIVE_ERROR_SUCCESS
    /\ trace = << >>
    /\ outContainer = EmptyContainer
    /\ outEntries = << >>
    /\ written = {}
    /\ queried = FALSE
    /\ outErrno = 0
    /\ outBuffer = ""
    /\ lastCount = 0
    /\ pending = NoPending

\* No read awaits its second phase.
CodecIdle == ~(op = OPEN_AND_READ /\ ret = NATIVE_ERROR_SUCCESS)

\* An array the caller has used before: every element holds old data.
StaleEntry == NativeEntry(ACL_ENTRY_TAG_TYPE_MASK, 99, 31)
StaleArray(n) == [j \in 1..n |-> StaleEntry]

ReadPermissions(fileName, e) ==
    /\ CodecIdle
    /\ \E m \in {OpenFileAndReadPermissionData(Machine(0, e), fileName, 0)} :
          /\ Commit(m)
          /\ op' = OPEN_AND_READ
          /\ inp' = [NoInput EXCEPT !.fileName = fileName]
          /\ entry' = Entry
          /\ ret' = m.ret
          /\ trace' = m.trace
          /\ outContainer' = m.dc
    /\ UNCHANGED << outEntries, written, queried, outErrno, outBuffer, caller >>

\* The second phase, with an array of aclSize elements.
ReadAcl(e) ==
    /\ ~CodecIdle
    /\ \E m \in {ReadFileAclAndClose(Machine(0, e),
                                     StaleArray(outContainer.aclSize))} :
          /\ Commit(m)
          /\ op' = READ_AND_CLOSE
          /\ inp' = [NoInput EXCEPT !.entries = StaleArray(outContainer.aclSize)]
          /\ entry' = Entry
          /\ ret' = m.ret
          /\ trace' = m.trace
          /\ outEntries' = m.ents
          /\ written' = m.written
          /\ kept' = IF m.ret = NATIVE_ERROR_SUCCESS
                     THEN [origin |-> "read", dataContainer |-> outContainer,
                           entries |-> m.ents]
                     ELSE kept
    /\ UNCHANGED << outContainer, queried, outErrno, outBuffer, lastCount, pending >>

\* The caller writes what it has at hand.
WriteKept(fileName, e) ==
    /\ CodecIdle
    /\ kept # NoKept
    /\ \E m \in {SetFilePermissionDataAndAcl(Machine(0, e), fileName, 0,
                                             kept.dataContainer, kept.entries)} :
          /\ Commit(m)
          /\ op' = WRITE_ALL
          /\ inp' = [fileName |-> fileName, defaultAcl |-> 0,
                     dataContainer |-> kept.dataContainer, entries |-> kept.entries]
          /\ entry' = Entry
          /\ ret' = m.ret
          /\ trace' = m.trace
          /\ kept' = IF m.ret = NATIVE_ERROR_SUCCESS
                     THEN [kept EXCEPT !.origin = IF @ = "read" THEN "written back"
                                                  ELSE "written"]
                     ELSE kept
    /\ UNCHANGED << outContainer, outEntries, written, queried, outErrno, outBuffer,
                    lastCount, pending >>

CodecNext ==
    \/ \E fileName \in Paths, e \in EnvErrnos : ReadPermissions(fileName, e)
    \/ \E e \in EnvErrnos : ReadAcl(e)
    \/ \E fileName \in Paths, e \in EnvErrnos : WriteKept(fileName, e)

CodecSpec == CodecInit /\ [][CodecNext]_vars

(* --------------------------------- C1 ---------------------------------- *)

\* What one operation acquired it released exactly once, and it released
\* nothing else.
Balanced(tr) ==
    /\ \A d \in OpenedBy(tr) : Cardinality(Closes(tr, d)) = 1
    /\ \A h \in AllocatedBy(tr) : Cardinality(Frees(tr, h)) = 1
    /\ ClosedBy(tr) \subseteq OpenedBy(tr)
    /\ FreedBy(tr) \subseteq AllocatedBy(tr)

\* C1: from an idle session, a SetFilePermissionDataAndAcl, a failed
\* OpenFileAndReadPermissionData, and the ReadFileAclAndClose that follows a
\* successful one each leave nothing open and nothing allocated, having
\* released every descriptor and handle of the operation exactly once and
\* nothing that was not acquired.
C1_ReleasedExactlyOnce ==
    /\ (/\ op \in {WRITE_ALL, OPEN_AND_READ}
        /\ Idle(entry)
        /\ ~(op = OPEN_AND_READ /\ ret = NATIVE_ERROR_SUCCESS))
       => Balanced(trace) /\ Idle(Now)
    /\ (op = READ_AND_CLOSE /\ Loaded(entry))
       => /\ Cardinality(Closes(trace, entry._fd)) = 1
          /\ Cardinality(Frees(trace, entry._acl)) = 1
          /\ ClosedBy(trace) = {entry._fd}
          /\ FreedBy(trace) = {entry._acl}
          /\ Idle(Now)

(* --------------------------------- C2 ---------------------------------- *)

\* C2: OpenFileAndReadPermissionData called on an idle session holds exactly
\* one open descriptor and one ACL handle when it returned success, keeps
\* them over every step that is not a call of an operation, and holds
\* nothing when it returned an error.
C2_HeldUntilSecondPhase ==
    /\ [](op = OPEN_AND_READ /\ Idle(entry) /\ ret = NATIVE_ERROR_SUCCESS
            => Loaded(Now))
    /\ [](op = OPEN_AND_READ /\ Idle(entry) /\ ret # NATIVE_ERROR_SUCCESS
            => Idle(Now))
    /\ [][Loaded(Now) /\ ~IsCall => Loaded(Now)']_vars

(* --------------------------------- C3 ---------------------------------- *)

\* C3 as stated: after any error return GetLastErrnoValue yields a non-zero
\* code and a non-empty description.
C3_EveryErrorCaptured ==
    (queried /\ op # "none" /\ ret # NATIVE_ERROR_SUCCESS)
        => outErrno # 0 /\ outBuffer # ""

\* C3: an operation that returns an error kind other than
\* NATIVE_ERROR_INVALID_TAG_TYPE has recorded a non-zero errno and its
\* description before it returned, and GetLastErrnoValue called next returns
\* them; after NATIVE_ERROR_INVALID_TAG_TYPE, which no failed call precedes,
\* it returns 0 and the empty string.
C3_ErrorCaptured ==
    /\ (op # "none" /\ ret \notin {NATIVE_ERROR_SUCCESS, NATIVE_ERROR_INVALID_TAG_TYPE})
        => /\ _lastErrnoValue # 0
           /\ _lastErrnoString # ""
           /\ queried => outErrno = _lastErrnoValue /\ outBuffer = _lastErrnoString
    /\ (queried /\ op # "none" /\ ret = NATIVE_ERROR_INVALID_TAG_TYPE)
        => outErrno = 0 /\ outBuffer = ""

C3_Witness ==
    /\ queried
    /\ op = WRITE_ALL
    /\ ret = NATIVE_ERROR_SET_ACL_FAILED
    /\ outErrno = 13
    /\ outBuffer = "Permission denied"

(* --------------------------------- C4 ---------------------------------- *)

\* C4: after an operation returned success the last-error value is 0 and
\* GetLastErrnoValue returns 0 and the empty string, whatever an earlier
\* operation recorded.
C4_SuccessClearsError ==
    (op # "none" /\ ret = NATIVE_ERROR_SUCCESS)
        => /\ _lastErrnoValue = 0
           /\ queried => outErrno = 0 /\ outBuffer = ""

\* A success queried while the description of an earlier failure is still
\* in the buffer.
C4_Witness ==
    /\ queried
    /\ op = READ_AND_CLOSE
    /\ ret = NATIVE_ERROR_SUCCESS
    /\ _lastErrnoString # ""
    /\ outErrno = 0
    /\ outBuffer = ""

(* --------------------------------- C5 ---------------------------------- *)

\* The error kinds of the ACL stage of SetFilePermissionDataAndAcl.
AclStageKinds ==
    {NATIVE_ERROR_INIT_ACL_FAILED, NATIVE_ERROR_CREATE_ACL_ENTRY_FAILED,
     NATIVE_ERROR_INVALID_TAG_TYPE, NATIVE_ERROR_SET_ACL_ENTRY_TAG_TYPE_FAILED,
     NATIVE_ERROR_SET_ACL_ENTRY_QUALIFIER_FAILED,
     NATIVE_ERROR_GET_ACL_ENTRY_PERMSET_FAILED,
     NATIVE_ERROR_CLEAR_ACL_ENTRY_PERMS_FAILED,
     NATIVE_ERROR_ADD_ACL_ENTRY_PERM_FAILED, NATIVE_ERROR_VALIDATE_ACL_FAILED,
     NATIVE_ERROR_SET_ACL_FAILED}

\* C5: when SetFilePermissionDataAndAcl returns an error kind of the ACL
\* stage, the fchmod it made before succeeded and the object has the mode it
\* set, and the fchown, if one was made, succeeded and the object has the
\* owner and the group it set (the ones it had at the call where the
\* "unchanged" id was passed).
C5_NoRollback ==
    (op = WRITE_ALL /\ ret \in AclStageKinds)
        => /\ Cardinality(Events(trace, "fchmod")) = 1
           /\ \A i \in Events(trace, "fchmod") :
                 /\ trace[i].ok
                 /\ trace[i].b = ChmodBits(inp.dataContainer)
                 /\ After.st_mode = trace[i].b
           /\ \A i \in Events(trace, "fchown") :
                 /\ trace[i].ok
                 /\ After.st_uid = IF trace[i].a = ACL_UNDEFINED_ID
                                   THEN Before.st_uid ELSE trace[i].a
                 /\ After.st_gid = IF trace[i].b = ACL_UNDEFINED_ID
                                   THEN Before.st_gid ELSE trace[i].b

\* A call that changed owner and mode and then failed at acl_valid.
C5_Witness ==
    /\ op = WRITE_ALL
    /\ ret = NATIVE_ERROR_VALIDATE_ACL_FAILED
    /\ Events(trace, "fchown") # {}
    /\ After.st_uid # Before.st_uid
    /\ After.st_uid = ToU32(inp.dataContainer.ownerId)
    /\ After.st_mode # Before.st_mode

(* --------------------------------- C6 ---------------------------------- *)

\* The ACL SetFilePermissionDataAndAcl builds from its arguments.
BuiltAcl ==
    [i \in 1..inp.dataContainer.aclSize |-> EncodedEntry(inp.entries[i])]

\* C6: a successful SetFilePermissionDataAndAcl has replaced the object's
\* default ACL when setDefaultAcl is set and its access ACL when it is not,
\* and has left the other ACL as it was.
C6_InstallsRequestedKind ==
    (op = WRITE_ALL /\ ret = NATIVE_ERROR_SUCCESS)
        => IF inp.defaultAcl > 0
           THEN After.default = BuiltAcl /\ After.access = Before.access
           ELSE After.access = BuiltAcl /\ After.default = Before.default

(* --------------------------------- C7 ---------------------------------- *)

C8_ChownOnlyOnChange ==
    (op = WRITE_ALL /\ ret \notin {NATIVE_ERROR_OPEN_FAILED, NATIVE_ERROR_FSTAT_FAILED})
        => LET owner == ToU32(inp.dataContainer.ownerId)
               group == ToU32(inp.dataContainer.groupId)
           IN /\ Cardinality(Events(trace, "fchown")) <= 1
              /\ Events(trace, "fchown") # {}
                    => owner # Before.st_uid \/ group # Before.st_gid
              /\ \A i \in Events(trace, "fchown") :
                    /\ trace[i].a = IF owner # Before.st_uid THEN owner
                                    ELSE ACL_UNDEFINED_ID
                    /\ trace[i].b = IF group # Before.st_gid THEN group
                                    ELSE ACL_UNDEFINED_ID
              /\ ret # NATIVE_ERROR_CHOWN_FAILED
                    => /\ Cardinality(Events(trace, "fchmod")) = 1
                       /\ \A i \in Events(trace, "fchmod") :
                             trace[i].b = ChmodBits(inp.dataContainer)

\* A call with the owner, the group and the mode the object already has: no
\* fchown, one fchmod.
C8_Witness ==
    /\ op = WRITE_ALL
    /\ ToU32(inp.dataContainer.ownerId) = Before.st_uid
    /\ ToU32(inp.dataContainer.groupId) = Before.st_gid
    /\ ChmodBits(inp.dataContainer) = Before.st_mode
    /\ Events(trace, "fchown") = {}
    /\ Events(trace, "fchmod") # {}
    /\ ret = NATIVE_ERROR_SUCCESS

(* --------------------------------- C9 ---------------------------------- *)

\* The call is the second phase of a read whose first phase succeeded, with
\* no call of an operation between the two.
SecondPhase ==
    op = READ_AND_CLOSE /\ entry.pending # NoPending /\ entry.pending.overlaps = 0

\* C9: the second phase of a read whose first phase returned aclSize N, the
\* number of entries of the ACL it loaded, stores into entries[0..N-1] only,
\* whatever call fails; when it returns success it has stored into each of
\* them, entries[i] being the i-th entry of the ACL; it returns success when
\* no call fails, also for N = 0, where it stores nothing.
C9_WritesExactlyCount ==
    SecondPhase
        => LET N == entry.pending.count
               acl == entry.pending.entries
           IN /\ N = Len(acl)
              /\ Len(outEntries) = N
              /\ written \subseteq 0..(N - 1)
              /\ NoCallFailed => ret = NATIVE_ERROR_SUCCESS
              /\ ret = NATIVE_ERROR_SUCCESS
                    => /\ written = 0..(N - 1)
                       /\ \A i \in 1..N : outEntries[i] = DecodedEntry(acl[i])

\* The five entries of the directory's access ACL, read in order.
C9_Witness ==
    /\ SecondPhase
    /\ ret = NATIVE_ERROR_SUCCESS
    /\ entry.pending.count = 5
    /\ written = 0..4
    /\ outEntries[1].tagType = ACL_ENTRY_TAG_TYPE_USER_OBJ
    /\ outEntries[3] = NativeEntry(ACL_ENTRY_TAG_TYPE_GROUP, -294967296,
                                   FILE_PERMISSION_READ)
    /\ outEntries[5].tagType = ACL_ENTRY_TAG_TYPE_OTHER

(* --------------------------------- C10 --------------------------------- *)

\* The read that awaited its second phase when the operation was called.
First == entry.pending

\* The call is the first call of OpenFileAndReadPermissionData or
\* SetFilePermissionDataAndAcl after a successful first phase whose second
\* phase is still to come; the call is that second phase, after one such call.
SecondCall ==
    op \in {OPEN_AND_READ, WRITE_ALL} /\ First # NoPending /\ First.overlaps = 0
LatePhase == op = READ_AND_CLOSE /\ First # NoPending /\ First.overlaps = 1

\* The operation got as far as acl_get_fd or acl_init.
ReachedAcl == Events(trace, "acl_get_fd") \cup Events(trace, "acl_init") # {}

\* The operation stored the result of its open, a descriptor other than the
\* first read's or -1, in the descriptor slot, which holds it or NULL now.
SlotOverwritten ==
    /\ Cardinality(Events(trace, "open")) = 1
    /\ \A i \in Events(trace, "open") :
          trace[i].a # First.fd /\ _fd \in {trace[i].a, NULL}

\* C10 as stated: the second call overwrites both slots and releases neither
\* the first read's descriptor nor its ACL handle, and the late second phase
\* does not read the first read's ACL.
C10_SlotsOverwrittenAndLeaked ==
    /\ SecondCall
          => /\ SlotOverwritten
             /\ _acl # First.acl
             /\ Closes(trace, First.fd) = {} /\ fdTable[First.fd] # "closed"
             /\ Frees(trace, First.acl) = {} /\ heap[First.acl].live
    /\ LatePhase => entry._acl # First.acl

\* What the second call leaves of the first read.
SecondCallOutcome ==
    SecondCall
        => /\ entry._fd = First.fd /\ entry._acl = First.acl
           /\ SlotOverwritten
           /\ Closes(trace, First.fd) = {} /\ fdTable[First.fd] # "closed"
           /\ IF ReachedAcl
              THEN /\ _acl # First.acl
                   /\ Frees(trace, First.acl) = {} /\ heap[First.acl].live
              ELSE IF ret = NATIVE_ERROR_OPEN_FAILED
              THEN /\ _fd = -1 /\ _acl = First.acl
                   /\ Frees(trace, First.acl) = {} /\ heap[First.acl].live
              ELSE /\ _acl = NULL
                   /\ Frees(trace, First.acl) # {} /\ ~heap[First.acl].live

\* What the late second phase does.
LatePhaseOutcome ==
    LatePhase
        => /\ \A i \in Events(trace, "acl_get_entry") : trace[i].a = entry._acl
           /\ Closes(trace, First.fd) = {} /\ fdTable[First.fd] # "closed"
           /\ IF entry._acl = First.acl
              THEN /\ Frees(trace, First.acl) # {} /\ ~heap[First.acl].live
                   /\ NoCallFailed \/ ret = NATIVE_ERROR_SUCCESS
                         => /\ ret = NATIVE_ERROR_SUCCESS
                            /\ outEntries = [i \in 1..First.count |->
                                                DecodedEntry(First.entries[i])]
              ELSE /\ Frees(trace, First.acl) = {}
                   /\ heap[First.acl] = entry.heap[First.acl]

\* A descriptor that is open and an ACL handle that is allocated while the
\* slot holds another value stay so in every step.
LeakIsPermanent ==
    /\ \A d \in FdPool : fdTable[d] # "closed" /\ d # _fd => fdTable'[d] # "closed"
    /\ \A h \in AclPool : heap[h].live /\ h # _acl => heap'[h].live

\* C10: the second call always overwrites the descriptor slot and never
\* closes the first read's descriptor, which then stays open for good.  It
\* overwrites the ACL slot and leaves the first ACL handle allocated for good
\* when it gets as far as acl_get_fd or acl_init; when it fails at open the
\* first handle stays in the slot, and the late second phase still returns
\* the first read's entries and frees the handle; when it fails between open
\* and the ACL its cleanup frees the first handle.  The late second phase
\* reads the handle in the slot only.
C10_SingleSlot ==
    /\ [](SecondCallOutcome /\ LatePhaseOutcome)
    /\ [][LeakIsPermanent]_vars

\* The late second phase after a second call that failed at open: it returns
\* the first read's five entries.
C10_Witness ==
    /\ LatePhase
    /\ entry._acl = First.acl
    /\ entry._fd = -1
    /\ ret = NATIVE_ERROR_SUCCESS
    /\ First.count = 5
    /\ outEntries[3] = NativeEntry(ACL_ENTRY_TAG_TYPE_GROUP, -294967296,
                                   FILE_PERMISSION_READ)
    /\ fdTable[First.fd] # "closed"

(* --------------------------------- C11 --------------------------------- *)

\* The three permission fields of a container.
Triple(c) == << c.ownerPermissions, c.groupPermissions, c.otherPermissions >>

\* The caller has at hand what its last successful write wrote.
ReadsBack == kept.origin \in {"written", "written back"}

\* C11: the mode SetFilePermissionDataAndAcl builds from the container
\* OpenFileAndReadPermissionData filled is the st_mode the object had, for
\* every mode of twelve bits, and a caller that writes back what it read
\* passes that mode to fchmod; the permission fields
\* OpenFileAndReadPermissionData fills after a successful
\* SetFilePermissionDataAndAcl are the fields that were written, for every
\* triple restricted to the flags of its class.
C11_ModeCodecRoundTrips ==
    /\ (op = OPEN_AND_READ /\ ret = NATIVE_ERROR_SUCCESS)
          => /\ ChmodBits(outContainer) = Before.st_mode
             /\ ReadsBack => Triple(outContainer) = Triple(kept.dataContainer)
    /\ (op = WRITE_ALL /\ entry.kept.origin = "read")
          => /\ Events(trace, "fchmod") # {}
             /\ \A i \in Events(trace, "fchmod") : trace[i].b = Before.st_mode
             /\ After.st_mode = Before.st_mode

\* Set-user-ID, sticky, group write and set-group-ID, other write and
\* execute: read, written back, and read again.
C11_Witness ==
    /\ op = OPEN_AND_READ
    /\ ret = NATIVE_ERROR_SUCCESS
    /\ kept.origin = "written back"
    /\ Before.st_mode = S_ISUID + S_ISVTX + S_ISGID + S_IWGRP + S_IWOTH + S_IXOTH
    /\ Triple(outContainer) =
          << FILE_PERMISSION_SETID + FILE_PERMISSION_STICKY,
             FILE_PERMISSION_SETID + FILE_PERMISSION_WRITE,
             FILE_PERMISSION_WRITE + FILE_PERMISSION_EXECUTE >>
    /\ Triple(kept.dataContainer) = Triple(outContainer)

(* --------------------------------- C12 --------------------------------- *)

\* The tag types that have a qualifier, on the two sides of the boundary.
NamedTags == {ACL_ENTRY_TAG_TYPE_USER, ACL_ENTRY_TAG_TYPE_GROUP}
NamedPlatformTags == {"ACL_USER", "ACL_GROUP"}
KnownPlatformTags ==
    {"ACL_USER_OBJ", "ACL_USER", "ACL_GROUP_OBJ", "ACL_GROUP", "ACL_MASK", "ACL_OTHER"}

\* The entries of the request with tag type User or Group.
NamedRequested ==
    {i \in 1..inp.dataContainer.aclSize : inp.entries[i].tagType \in NamedTags}

\* The read, write and execute flags of a permission field.
RWX(permissions) == permissions % (2 * FILE_PERMISSION_READ)

\* The ACL the handle in the slot held when the operation was called.
HeldAcl == IF entry._acl \in AclPool THEN entry.heap[entry._acl].entries ELSE << >>

\* The call is a successful second phase that reads back the entries the
\* caller wrote last: the first aclSize of the array it had at hand.
ReadBackAcl ==
    /\ op = READ_AND_CLOSE
    /\ ret = NATIVE_ERROR_SUCCESS
    /\ entry.kept.origin \in {"written", "written back"}
WrittenEntries ==
    [i \in 1..entry.kept.dataContainer.aclSize |-> entry.kept.entries[i]]

\* C12: an entry with tag type User or Group that
\* SetFilePermissionDataAndAcl wrote comes back from ReadFileAclAndClose
\* with its tag type, its qualifier and its read, write and execute flags,
\* and without its other flags.  The ACL a successful
\* SetFilePermissionDataAndAcl leaves on the object is the entry-wise
\* encoding of its array, the entries a successful ReadFileAclAndClose
\* stores are the entry-wise decoding of the ACL held, and encoding followed
\* by decoding preserves the three for every such entry of a request, those
\* of the requests acl_valid rejects (qualifier -1) included.
C12_NamedEntryRoundTrips ==
    /\ ReadBackAcl
          => /\ Len(outEntries) = Len(WrittenEntries)
             /\ \A i \in DOMAIN WrittenEntries :
                   WrittenEntries[i].tagType \in NamedTags
                      => outEntries[i] =
                            NativeEntry(WrittenEntries[i].tagType,
                                        WrittenEntries[i].tagQualifier,
                                        RWX(WrittenEntries[i].permissions))
    /\ (op = WRITE_ALL /\ ret = NATIVE_ERROR_SUCCESS) => After.access = BuiltAcl
    /\ (op = READ_AND_CLOSE /\ ret = NATIVE_ERROR_SUCCESS)
          => \A i \in DOMAIN HeldAcl :
                HeldAcl[i].tag \in KnownPlatformTags
                   => outEntries[i] = DecodedEntry(HeldAcl[i])
    /\ op = WRITE_ALL
          => \A i \in NamedRequested :
                DecodedEntry(EncodedEntry(inp.entries[i])) =
                   NativeEntry(inp.entries[i].tagType, inp.entries[i].tagQualifier,
                               RWX(inp.entries[i].permissions))

\* A named user with the least id of int32_t and every flag, and a named
\* group with the greatest and none, written and read back.
C12_Witness ==
    /\ ReadBackAcl
    /\ WrittenEntries[2] = NativeEntry(ACL_ENTRY_TAG_TYPE_USER, -2147483647 - 1, 31)
    /\ outEntries[2] = NativeEntry(ACL_ENTRY_TAG_TYPE_USER, -2147483647 - 1, 7)
    /\ WrittenEntries[4] = NativeEntry(ACL_ENTRY_TAG_TYPE_GROUP, 2147483647, 0)
    /\ outEntries[4] = WrittenEntries[4]

(* --------------------------------- C13 --------------------------------- *)

\* C13: ReadFileAclAndClose stores qualifier 0 for every entry of the ACL
\* held whose tag is not ACL_USER or ACL_GROUP, so an entry of another tag
\* type comes back with qualifier 0 whatever qualifier was written and
\* whatever the array held; SetFilePermissionDataAndAcl calls
\* acl_set_qualifier for entries of tag type User and Group only, once each
\* when it succeeds, and leaves the qualifier of the other entries undefined.
C13_QualifierOnlyForNamed ==
    /\ (op = READ_AND_CLOSE /\ ret = NATIVE_ERROR_SUCCESS)
          => \A i \in DOMAIN HeldAcl :
                HeldAcl[i].tag \notin NamedPlatformTags => outEntries[i].tagQualifier = 0
    /\ ReadBackAcl
          => \A i \in DOMAIN WrittenEntries :
                WrittenEntries[i].tagType \notin NamedTags
                   => outEntries[i].tagQualifier = 0
    /\ op = WRITE_ALL
          => /\ Cardinality(Events(trace, "acl_set_qualifier"))
                   <= Cardinality(NamedRequested)
             /\ ret = NATIVE_ERROR_SUCCESS
                   => /\ Cardinality(Events(trace, "acl_set_qualifier"))
                            = Cardinality(NamedRequested)
                      /\ \A i \in DOMAIN After.access :
                            i \notin NamedRequested
                               => After.access[i].qual = ACL_UNDEFINED_ID

\* The owning group written with qualifier 77 and the mask with -3: both
\* come back with 0, over the 99 the array held.
C13_Witness ==
    /\ ReadBackAcl
    /\ WrittenEntries[3] = NativeEntry(ACL_ENTRY_TAG_TYPE_GROUP_OBJ, 77, 5)
    /\ outEntries[3] = NativeEntry(ACL_ENTRY_TAG_TYPE_GROUP_OBJ, 0, 5)
    /\ WrittenEntries[5].tagQualifier = -3
    /\ inp.entries[5].tagQualifier = 99
    /\ outEntries[5].tagQualifier = 0

(* --------------------------------- C14 --------------------------------- *)

\* The values of native_acl_entry_tag_type_t.
KnownTags ==
    {ACL_ENTRY_TAG_TYPE_USER_OBJ, ACL_ENTRY_TAG_TYPE_USER,
     ACL_ENTRY_TAG_TYPE_GROUP_OBJ, ACL_ENTRY_TAG_TYPE_GROUP,
     ACL_ENTRY_TAG_TYPE_MASK, ACL_ENTRY_TAG_TYPE_OTHER}

\* The entries among the first aclSize whose tag type is none of them.
BadRequested ==
    {i \in 1..inp.dataContainer.aclSize : inp.entries[i].tagType \notin KnownTags}

\* C14: when one of the first aclSize entries has a tag type outside the
\* six and no underlying call fails, SetFilePermissionDataAndAcl returns
\* NATIVE_ERROR_INVALID_TAG_TYPE at the first such entry, whatever entries
\* precede it, without validating or installing an ACL; it returns that
\* kind in no other case.
C14_InvalidTagRejected ==
    op = WRITE_ALL
        => /\ (BadRequested # {} /\ NoCallFailed)
                 => /\ ret = NATIVE_ERROR_INVALID_TAG_TYPE
                    /\ Cardinality(Events(trace, "acl_create_entry"))
                          = MinOf(BadRequested)
                    /\ Events(trace, "acl_valid") \cup Events(trace, "acl_set_fd") = {}
                    /\ After.access = Before.access
           /\ ret = NATIVE_ERROR_INVALID_TAG_TYPE => BadRequested # {}

\* The last of six entries has tag type -1; the five before it, a named user
\* and a named group among them, were built.
C14_Witness ==
    /\ op = WRITE_ALL
    /\ ret = NATIVE_ERROR_INVALID_TAG_TYPE
    /\ inp.entries = BadAt(ExtendedEntries(1000, 5), 6, -1)
    /\ Cardinality(Events(trace, "acl_create_entry")) = 6
    /\ Cardinality(Events(trace, "acl_set_qualifier")) = 2
    /\ Cardinality(Events(trace, "acl_set_tag_type")) = 5

(* --------------------------------- C17 --------------------------------- *)

\* C17: for an entry of the ACL held whose tag is undefined or unknown, a
\* ReadFileAclAndClose in which no call fails stores no tag type, so the
\* element keeps the one the array came with, stores qualifier 0 and the
\* entry's permissions, goes on to decode the entries after it, and returns
\* NATIVE_ERROR_SUCCESS.
C17_UnknownTagSkipped ==
    (op = READ_AND_CLOSE /\ HeldAcl # << >> /\ NoCallFailed)
        => /\ ret = NATIVE_ERROR_SUCCESS
           /\ written = 0..(Len(HeldAcl) - 1)
           /\ \A i \in DOMAIN HeldAcl :
                 outEntries[i] =
                    IF HeldAcl[i].tag \in KnownPlatformTags
                    THEN DecodedEntry(HeldAcl[i])
                    ELSE NativeEntry(inp.entries[i].tagType, 0,
                                     DecodePerms(HeldAcl[i].perms))

\* The ACL with an untagged second entry and an unknown fourth: both
\* elements keep tag type Mask of the array, the fifth is decoded.
C17_Witness ==
    /\ op = READ_AND_CLOSE
    /\ ret = NATIVE_ERROR_SUCCESS
    /\ HeldAcl = AclOdd
    /\ inp.entries[2].tagType = ACL_ENTRY_TAG_TYPE_MASK
    /\ outEntries[2] = NativeEntry(ACL_ENTRY_TAG_TYPE_MASK, 0, 5)
    /\ outEntries[4] = NativeEntry(ACL_ENTRY_TAG_TYPE_MASK, 0, 2)
    /\ outEntries[5] = NativeEntry(ACL_ENTRY_TAG_TYPE_OTHER, 0, 4)

(* --------------------------------- C15 --------------------------------- *)

\* The open of the operation failed.
OpenFailed == \E i \in Events(trace, "open") : ~trace[i].ok

\* C15: when the open of OpenFileAndReadPermissionData or
\* SetFilePermissionDataAndAcl fails, the operation makes no other call and
\* returns NATIVE_ERROR_OPEN_FAILED with a non-zero errno and its
\* description recorded, and GetLastErrnoValue called next returns them.
C15_OpenFailureReported ==
    (op \in {OPEN_AND_READ, WRITE_ALL} /\ OpenFailed)
        => /\ ret = NATIVE_ERROR_OPEN_FAILED
           /\ Len(trace) = 1
           /\ _lastErrnoValue # 0 /\ _lastErrnoString # ""
           /\ queried => /\ outErrno # 0 /\ outBuffer # ""
                         /\ outErrno = _lastErrnoValue
                         /\ outBuffer = _lastErrnoString

\* A read whose open was denied, queried.
C15_Witness ==
    /\ queried
    /\ op = OPEN_AND_READ
    /\ OpenFailed
    /\ ret = NATIVE_ERROR_OPEN_FAILED
    /\ outErrno = 13
    /\ outBuffer = "Permission denied"

(* --------------------------------- C16 --------------------------------- *)

\* The calls whose result the code checks, and the error kind it returns
\* for each.
KindOf(call) ==
    CASE call = "open"              -> NATIVE_ERROR_OPEN_FAILED
      [] call = "fstat"             -> NATIVE_ERROR_FSTAT_FAILED
      [] call = "acl_get_fd"        -> NATIVE_ERROR_GET_ACL_FAILED
      [] call = "acl_get_entry"     -> NATIVE_ERROR_GET_ACL_ENTRY_FAILED
      [] call = "acl_get_tag_type"  -> NATIVE_ERROR_GET_ACL_ENTRY_TAG_TYPE_FAILED
      [] call = "acl_get_qualifier" -> NATIVE_ERROR_GET_ACL_ENTRY_QUALIFIER_FAILED
      [] call = "acl_get_permset"   -> NATIVE_ERROR_GET_ACL_ENTRY_PERMSET_FAILED
      [] call = "acl_get_perm"      -> NATIVE_ERROR_GET_ACL_ENTRY_PERM_FAILED
      [] call = "fchown"            -> NATIVE_ERROR_CHOWN_FAILED
      [] call = "fchmod"            -> NATIVE_ERROR_CHMOD_FAILED
      [] call = "acl_init"          -> NATIVE_ERROR_INIT_ACL_FAILED
      [] call = "acl_create_entry"  -> NATIVE_ERROR_CREATE_ACL_ENTRY_FAILED
      [] call = "acl_set_tag_type"  -> NATIVE_ERROR_SET_ACL_ENTRY_TAG_TYPE_FAILED
      [] call = "acl_set_qualifier" -> NATIVE_ERROR_SET_ACL_ENTRY_QUALIFIER_FAILED
      [] call = "acl_clear_perms"   -> NATIVE_ERROR_CLEAR_ACL_ENTRY_PERMS_FAILED
      [] call = "acl_add_perm"      -> NATIVE_ERROR_ADD_ACL_ENTRY_PERM_FAILED
      [] call = "acl_valid"         -> NATIVE_ERROR_VALIDATE_ACL_FAILED
      [] call = "acl_set_fd"        -> NATIVE_ERROR_SET_ACL_FAILED
      [] OTHER -> NATIVE_ERROR_SUCCESS
CheckedCalls ==
    {"open", "fstat", "acl_get_fd", "acl_get_entry", "acl_get_tag_type",
     "acl_get_qualifier", "acl_get_permset", "acl_get_perm", "fchown", "fchmod",
     "acl_init", "acl_create_entry", "acl_set_tag_type", "acl_set_qualifier",
     "acl_clear_perms", "acl_add_perm", "acl_valid", "acl_set_fd"}

\* The steps of the operation: its calls other than those of
\* cleanup_with_error_code; the steps that failed.
Steps == {i \in DOMAIN trace : trace[i].call \notin {"acl_free", "close"}}
FailedSteps == {i \in Steps : ~trace[i].ok}

\* The first step of each operation, and the steps that can follow a step.
FirstStep ==
    IF op = READ_AND_CLOSE THEN "acl_get_entry" ELSE "open"
NextSteps(call) ==
    IF op = OPEN_AND_READ
    THEN CASE call = "open" -> {"fstat"}
           [] call = "fstat" -> {"acl_get_fd"}
           [] call = "acl_get_fd" -> {"acl_get_entry"}
           [] call = "acl_get_entry" -> {"acl_get_entry"}
           [] OTHER -> {}
    ELSE IF op = READ_AND_CLOSE
    THEN CASE call = "acl_get_entry" -> {"acl_get_tag_type"}
           [] call = "acl_get_tag_type" -> {"acl_get_qualifier", "acl_get_permset"}
           [] call = "acl_get_qualifier" -> {"acl_free_qualifier"}
           [] call = "acl_free_qualifier" -> {"acl_get_permset"}
           [] call = "acl_get_permset" -> {"acl_get_perm"}
           [] call = "acl_get_perm" -> {"acl_get_perm", "acl_get_entry"}
           [] OTHER -> {}
    ELSE CASE call = "open" -> {"fstat"}
           [] call = "fstat" -> {"fchown", "fchmod"}
           [] call = "fchown" -> {"fchmod"}
           [] call = "fchmod" -> {"acl_init"}
           [] call = "acl_init" -> {"acl_create_entry", "acl_valid"}
           [] call = "acl_create_entry" -> {"acl_set_tag_type"}
           [] call = "acl_set_tag_type" -> {"acl_set_qualifier", "acl_get_permset"}
           [] call = "acl_set_qualifier" -> {"acl_get_permset"}
           [] call = "acl_get_permset" -> {"acl_clear_perms"}
           [] call = "acl_clear_perms" -> {"acl_add_perm", "acl_create_entry", "acl_valid"}
           [] call = "acl_add_perm" -> {"acl_add_perm", "acl_create_entry", "acl_valid"}
           [] call = "acl_valid" -> {"acl_set_fd"}
           [] OTHER -> {}

\* The steps are made in the order of the code and before the cleanup; a
\* step that fails is the last one, and the kind returned is the kind of
\* its call and of no other call.
OrderedAndStopped ==
    /\ \A i \in Steps :
          /\ i = 1 => trace[i].call = FirstStep
          /\ i > 1 => (i - 1) \in Steps /\ trace[i].call \in NextSteps(trace[i - 1].call)
          /\ i > 1 => trace[i - 1].ok
    /\ \A i \in FailedSteps :
          /\ ret = KindOf(trace[i].call)
          /\ trace[i].call \in CheckedCalls
          /\ \A c \in CheckedCalls : KindOf(c) = ret => c = trace[i].call

\* C16 as stated: every error kind returned is the kind of an underlying
\* call that failed.
C16_KindOfFirstFailedCall ==
    op # "none"
        => /\ OrderedAndStopped
           /\ ret # NATIVE_ERROR_SUCCESS => FailedSteps # {}

\* C16: the steps of every operation are made in the order of the code; no
\* step follows one that failed; the kind returned then is the one of the
\* failed call, each of the eighteen checked calls having a kind of its own;
\* when no step failed the operation returns NATIVE_ERROR_SUCCESS or, from
\* SetFilePermissionDataAndAcl with an entry whose tag type is none of the
\* six, NATIVE_ERROR_INVALID_TAG_TYPE, the one kind that belongs to no call.
C16_OrderAndKinds ==
    op # "none"
        => /\ OrderedAndStopped
           /\ FailedSteps = {}
                 => \/ ret = NATIVE_ERROR_SUCCESS
                    \/ /\ ret = NATIVE_ERROR_INVALID_TAG_TYPE
                       /\ op = WRITE_ALL
                       /\ BadRequested # {}
           /\ ret \notin {NATIVE_ERROR_SUCCESS, NATIVE_ERROR_INVALID_TAG_TYPE}
                 => FailedSteps # {}

\* A write that got through owner, mode and the first entry and failed at
\* the first call of the second.
C16_Witness ==
    /\ op = WRITE_ALL
    /\ ret = NATIVE_ERROR_CREATE_ACL_ENTRY_FAILED
    /\ Cardinality(Events(trace, "acl_create_entry")) = 2
    /\ Events(trace, "fchown") # {}
    /\ Events(trace, "acl_valid") = {}
    /\ Cardinality(FailedSteps) = 1

(* --------------------------------- C18 --------------------------------- *)

\* C18: a call of GetLastErrnoValue (the steps after which queried holds)
\* changes none of the globals, the descriptor table, the ACL handles and
\* the object, returns the record as it is, and returns what the call before
\* it returned; the record changes only in a call of one of the three
\* operations.
C18_QueryIsPure ==
    /\ [][queried'
            => /\ UNCHANGED prog
               /\ outErrno' = _lastErrnoValue
               /\ outBuffer' = IF _lastErrnoValue = 0 THEN "" ELSE _lastErrnoString
               /\ queried => outErrno' = outErrno /\ outBuffer' = outBuffer]_vars
    /\ [](queried => outErrno = _lastErrnoValue)
    /\ [][_lastErrnoValue' # _lastErrnoValue \/ _lastErrnoString' # _lastErrnoString
            => IsCall]_vars

\* The record of a second phase called with no ACL held, queried: it is
\* still in place.
C18_Witness ==
    /\ queried
    /\ op = READ_AND_CLOSE
    /\ ret = NATIVE_ERROR_GET_ACL_ENTRY_FAILED
    /\ outErrno = EINVAL
    /\ outBuffer = "Invalid argument"
    /\ _lastErrnoValue = EINVAL
    /\ _lastErrnoString = "Invalid argument"

(* --------------------------------- C19 --------------------------------- *)

\* C19 as stated: in every state between two calls the descriptor slot is
\* NULL exactly when no descriptor the session opened is open, and the ACL
\* slot is NULL exactly when no ACL handle is allocated.
C19_SlotsMirrorOwnership ==
    /\ _fd = NULL <=> OpenFds(Now) = {}
    /\ _acl = NULL <=> LiveAcls(Now) = {}

(* --------------------------------- C20 --------------------------------- *)

\* C20 as stated: when the requested owner (group) differs from the one
\* the object has, SetFilePermissionDataAndAcl calls fchown with the
\* requested id for it, and the fchown, when it succeeds, makes it the
\* object's owner (group).
C20_RequestedIdentityIssued ==
    (op = WRITE_ALL /\ ret \notin {NATIVE_ERROR_OPEN_FAILED, NATIVE_ERROR_FSTAT_FAILED})
        => LET owner == ToU32(inp.dataContainer.ownerId)
               group == ToU32(inp.dataContainer.groupId)
           IN /\ owner # Before.st_uid
                    => /\ Events(trace, "fchown") # {}
                       /\ \A i \in Events(trace, "fchown") :
                             /\ trace[i].a = owner
                             /\ trace[i].ok => After.st_uid = owner
              /\ group # Before.st_gid
                    => /\ Events(trace, "fchown") # {}
                       /\ \A i \in Events(trace, "fchown") :
                             /\ trace[i].b = group
                             /\ trace[i].ok => After.st_gid = group

====
